---- MODULE Spec2Model ----
(***************************************************************************)
(* A model of the TTS cache of rvc/lib/tools/tts_cache.py: two directories *)
(* of flat files (the raw-synthesis cache and the post-processed-output    *)
(* cache), the file modification time used as last-touched time, and the   *)
(* operations that read, write, evict and clear them.                      *)
(*                                                                         *)
(* Sizes are kept in bytes.  The code compares sizes in megabytes held as  *)
(* floats (bytes / (1024 * 1024)); the division is by a power of two and   *)
(* is exact, so "size_mb <= max_size_mb" is modelled as                    *)
(* "bytes <= max_size_mb * BytesPerMB".                                    *)
(*                                                                         *)
(* A byte string is modelled by its length and the value of its bytes      *)
(* (strings of one repeated byte): [kind |-> "bytes", fill, len].          *)
(*                                                                         *)
(* The module also models the key derivation of both caches (the string    *)
(* that is hashed), the two ceilings read from the environment when the    *)
(* module is imported, and combine_audio_segments_azure of                 *)
(* rvc/lib/tools/srt_utils.py as a run over a list of segments, with       *)
(* times in milliseconds and rates in hundredths; combine_audio_segments_  *)
(* edge as a run over a list of files; is_valid_wav_data; two callers of  *)
(* save_to_cache that run concurrently, statement by statement; a caller   *)
(* of get_cached_audio or get_cached_output among concurrent saves,        *)
(* evictions and clears; and main() of rvc/lib/tools/tts.py.               *)
(***************************************************************************)
EXTENDS Integers, Sequences, FiniteSets, TLC

\* ---------------------------------------------------------------- bounds
\* the clock advances at most MaxTicks times
MaxTicks == 1
\* the largest max_size_mb a caller passes
MaxSizeMB == 2
\* the largest "hours" a caller passes to the age-based clear
MaxHours == 2
\* the number of files whose removal can fail during one call
MaxFailures == 1
\* the longest voice, rate and text given to get_cache_key
MaxFieldLen == 2
\* the longest list of segments given to combine_audio_segments_azure
MaxSegments == 2
\* the longest list of files given to combine_audio_segments_edge
MaxFiles == 3

\* ---------------------------------------------------- program constants
BytesPerMB == 1048576
SecondsPerHour == 3600
CACHE_DIR == "assets/tts_cache"
OUTPUT_CACHE_DIR == "assets/tts_output_cache"
Dirs == {CACHE_DIR, OUTPUT_CACHE_DIR}
\* values of SRT_TTS_CACHE_SIZE_MB / TTS_OUTPUT_CACHE_SIZE_MB when unset
RawDefaultMB == 512
OutputDefaultMB == 256
\* the default of max_cache_size_mb of text_to_speech_azure
SynthCacheMB == 512
\* the length of a WAV header, the retries of a synthesis phase, and the
\* range of the speed factor, in hundredths
WavHeaderLen == 44
Retries == 3
MinSpeed == 50
MaxSpeed == 300
\* combine_audio_segments_edge: the size a file must exceed to be decoded,
\* the gap between two segments and the track returned for no segment, in ms
MinFileSize == 500
GapMs == 300
FallbackMs == 1000

\* ------------------------------------------------------------ values
None == [kind |-> "None"]
Bytes(fill, len) == [kind |-> "bytes", fill |-> fill, len |-> len]
EmptyBytes == Bytes(0, 0)
IntVal(n) == [kind |-> "int", n |-> n]
PathVal(dir, name) == [kind |-> "path", dir |-> dir, name |-> name]
\* what a read hit did to the file's mtime: its value before, and the clock
TouchVal(before, at) == [kind |-> "touch", before |-> before, at |-> at]

\* len(audio_data) for a bytes value
BLen(b) == b.len

\* the blobs callers hand to the cache
Blob1 == Bytes(1, BytesPerMB)
Blob2 == Bytes(2, 2 * BytesPerMB)
Blobs == {Blob1, Blob2}
AudioInputs == {None, EmptyBytes} \cup Blobs
\* the contents of the files handed to the output cache
OutBlob == Bytes(3, OutputDefaultMB * BytesPerMB)
OutBlobs == {EmptyBytes, OutBlob}

\* the clock readings the model can reach
Times == {k * SecondsPerHour : k \in 0..MaxTicks}

\* requests against the raw-synthesis cache
Req1 == [text |-> "hi", voice |-> "v1", rate |-> "1.0", mode |-> "azure", format |-> "wav"]
Req2 == [text |-> "yo", voice |-> "v1", rate |-> "1.0", mode |-> "azure", format |-> "wav"]
Req3 == [text |-> "hi", voice |-> "v1", rate |-> "1.0", mode |-> "edge", format |-> "mp3"]
RawRequests == {Req1, Req2, Req3}

\* requests against the output cache
OutReq(pitch) ==
  [text |-> "hi", voice |-> "v1", rate |-> "1.0", model |-> "m1", pitch |-> pitch,
   index_rate |-> "0.75", protect |-> "0.5", f0_method |-> "rmvpe",
   split_audio |-> "False", f0_autotune |-> "False", clean_audio |-> "False",
   format |-> "wav"]
OutReq1 == OutReq("0")
OutReq2 == OutReq("12")
OutRequests == {OutReq1, OutReq2}

\* ------------------------------------------------------------ state
VARIABLES
  fs,      \* fs[dir]: the files of a cache directory, name -> [data, mtime]
  now,     \* the clock (time.time() and the file-system timestamp source)
  config,  \* the module-level ceilings read from the environment at import
  last,    \* the last call: its name, arguments and return value
  environ, \* os.environ: the size ceilings set in the environment, or None
  derived, \* the cache key derived last: the function, its arguments, the key
  run      \* the call in progress: a run of combine_audio_segments_azure or
           \* _edge, the concurrent callers of save_to_cache, a read of a
           \* cache, or a run of main() of tts.py with the files it sees

vars == <<fs, now, config, last, environ, derived, run>>

\* ------------------------------------------------------------ helpers
\* hashlib.md5(s).hexdigest(): a digest that identifies its input
MD5(s) == "md5(" \o s \o ")"

\* get_cache_key leaving the rate out of the string it hashes
get_cache_key_NoRate(text, voice, rate, mode) ==
  LET key_string == mode \o ":" \o voice \o ":" \o text
  IN  MD5(key_string)

\* get_cache_key joining the fields without a separator
get_cache_key_NoSeparator(text, voice, rate, mode) ==
  LET key_string == mode \o voice \o rate \o text
  IN  MD5(key_string)

get_cache_key(text, voice, rate, mode) ==
  LET key_string == mode \o ":" \o voice \o ":" \o rate \o ":" \o text
  IN  MD5(key_string)

get_output_cache_key(r) ==
  LET key_string == "output:" \o r.voice \o ":" \o r.rate \o ":" \o r.model \o ":"
                    \o r.pitch \o ":" \o r.index_rate \o ":" \o r.protect \o ":"
                    \o r.f0_method \o ":" \o r.split_audio \o ":" \o r.f0_autotune
                    \o ":" \o r.clean_audio \o ":" \o r.text
  IN  MD5(key_string)

\* ------------------------------------------------- arguments of the keys
\* the strings of length k over the characters A
RECURSIVE StrsOfLen(_, _)
StrsOfLen(A, k) == IF k = 0 THEN {""} ELSE { s \o c : s \in StrsOfLen(A, k - 1), c \in A }

\* the non-empty strings of length <= n over the characters A
StrsUpTo(A, n) == UNION { StrsOfLen(A, k) : k \in 1..n }

\* voice, rate and text: strings that may hold the ":" the key string is
\* joined with; mode is "azure" or "edge"
Fields == StrsUpTo({"a", ":"}, MaxFieldLen)
PlainFields == StrsUpTo({"a"}, MaxFieldLen)
Modes == {"azure", "edge"}
RawTuples == [text : Fields, voice : Fields, rate : Fields, mode : Modes]

\* get_cache_key applied to a tuple of arguments
RawKey(t) == get_cache_key(t.text, t.voice, t.rate, t.mode)

\* str(n) of an int; str(b) of a bool
IntStr(n) == ToString(n)
BoolStr(b) == IF b THEN "True" ELSE "False"

\* str(x) of a float x = h / 100 with h >= 0: the shortest decimal that
\* reads back as x, with at least one digit after the point
FloatStr(h) ==
  LET whole == ToString(h \div 100)
      frac == h % 100
  IN  IF frac % 10 = 0 THEN whole \o "." \o ToString(frac \div 10)
      ELSE IF frac < 10 THEN whole \o ".0" \o ToString(frac)
      ELSE whole \o "." \o ToString(frac)

\* the values each argument of get_output_cache_key is given: pitch an int,
\* index_rate and protect floats (in hundredths), the three flags bools
OutFieldValues ==
  [text |-> {"hi", "yo"}, voice |-> {"v1", "v2"}, rate |-> {"1.0", "+10%"},
   model |-> {"m1", "m2"}, pitch |-> {0, 12}, index_rate |-> {75, 50},
   protect |-> {50, 33}, f0_method |-> {"rmvpe", "crepe"},
   split_audio |-> BOOLEAN, f0_autotune |-> BOOLEAN, clean_audio |-> BOOLEAN]
OutTuples ==
  [text : OutFieldValues.text, voice : OutFieldValues.voice, rate : OutFieldValues.rate,
   model : OutFieldValues.model, pitch : OutFieldValues.pitch,
   index_rate : OutFieldValues.index_rate, protect : OutFieldValues.protect,
   f0_method : OutFieldValues.f0_method, split_audio : OutFieldValues.split_audio,
   f0_autotune : OutFieldValues.f0_autotune, clean_audio : OutFieldValues.clean_audio]

\* the replacement fields of the f-string of get_output_cache_key, formatted
FormatOut(t) ==
  [text |-> t.text, voice |-> t.voice, rate |-> t.rate, model |-> t.model,
   pitch |-> IntStr(t.pitch), index_rate |-> FloatStr(t.index_rate),
   protect |-> FloatStr(t.protect), f0_method |-> t.f0_method,
   split_audio |-> BoolStr(t.split_audio), f0_autotune |-> BoolStr(t.f0_autotune),
   clean_audio |-> BoolStr(t.clean_audio)]

\* get_output_cache_key applied to a tuple of arguments
OutKey(t) == get_output_cache_key(FormatOut(t))

\* the file name below the cache directory: "<key>.<format>"
FileName(key, format) == key \o "." \o format

\* os.path.join(dir_path, f"{key}.{format}")
get_cache_path(key, format, cache_dir) == PathVal(cache_dir, FileName(key, format))

RECURSIVE SumSizes(_, _)
SumSizes(d, names) ==
  IF names = {} THEN 0
  ELSE LET n == CHOOSE x \in names : TRUE
       IN  BLen(d[n].data) + SumSizes(d, names \ {n})

\* total size of the files of a directory, in bytes (MB * 2^20)
get_cache_size_mb(d) == SumSizes(d, DOMAIN d)

\* the directory without file n
Remove(d, n) == [x \in (DOMAIN d) \ {n} |-> d[x]]

\* the directory with file n (over)written
WriteFile(d, n, data, mtime) ==
  [x \in (DOMAIN d) \cup {n} |-> IF x = n THEN [data |-> data, mtime |-> mtime] ELSE d[x]]

\* Path(p).touch() on an existing file
Touch(d, n, t) == [d EXCEPT ![n].mtime = t]

\* the sequences that list every member of S once
Perms(S) ==
  { p \in [1..Cardinality(S) -> S] : \A i, j \in 1..Cardinality(S) : i # j => p[i] # p[j] }

\* get_cache_files_sorted with the sort reversed (newest first)
get_cache_files_sorted_NewestFirst(d) ==
  { p \in Perms(DOMAIN d) :
      \A i, j \in 1..Len(p) : i < j => d[p[i]].mtime >= d[p[j]].mtime }

\* the listings files.sort(key=mtime) can produce: glob order is arbitrary
\* and the sort is stable, so files of equal mtime come in any order
get_cache_files_sorted(d) ==
  { p \in Perms(DOMAIN d) :
      \A i, j \in 1..Len(p) : i < j => d[p[i]].mtime <= d[p[j]].mtime }

\* the sets of files for which os.remove raises during one call
FailSets(d) == { F \in SUBSET DOMAIN d : Cardinality(F) <= MaxFailures }

\* EvictLoop leaving the loop after its first removal
RECURSIVE EvictLoop_OneOnly(_, _, _, _, _, _, _, _)
EvictLoop_OneOnly(files, i, d, current_size, max_bytes, fail, removed_count, failed) ==
  IF i > Len(files) \/ current_size <= max_bytes \/ removed_count >= 1
  THEN [d |-> d, ret |-> removed_count, failed |-> failed]
  ELSE IF files[i] \in fail
       THEN EvictLoop_OneOnly(files, i + 1, d, current_size, max_bytes, fail,
                              removed_count, failed \cup {files[i]})
       ELSE EvictLoop_OneOnly(files, i + 1, Remove(d, files[i]),
                              current_size - BLen(d[files[i]].data), max_bytes, fail,
                              removed_count + 1, failed)

\* EvictLoop with the try around the whole loop: the first failure ends it
RECURSIVE EvictLoop_AbortOnFailure(_, _, _, _, _, _, _, _)
EvictLoop_AbortOnFailure(files, i, d, current_size, max_bytes, fail, removed_count, failed) ==
  IF i > Len(files) \/ current_size <= max_bytes
  THEN [d |-> d, ret |-> removed_count, failed |-> failed]
  ELSE IF files[i] \in fail
       THEN [d |-> d, ret |-> removed_count, failed |-> failed \cup {files[i]}]
       ELSE EvictLoop_AbortOnFailure(files, i + 1, Remove(d, files[i]),
                                     current_size - BLen(d[files[i]].data), max_bytes, fail,
                                     removed_count + 1, failed)

\* the loop of enforce_cache_limit over the sorted listing, from index i;
\* os.remove raises for the files in fail
RECURSIVE EvictLoop(_, _, _, _, _, _, _, _)
EvictLoop(files, i, d, current_size, max_bytes, fail, removed_count, failed) ==
  IF i > Len(files) \/ current_size <= max_bytes
  THEN [d |-> d, ret |-> removed_count, failed |-> failed]
  ELSE IF files[i] \in fail
       THEN EvictLoop(files, i + 1, d, current_size, max_bytes, fail,
                      removed_count, failed \cup {files[i]})
       ELSE EvictLoop(files, i + 1, Remove(d, files[i]),
                      current_size - BLen(d[files[i]].data), max_bytes, fail,
                      removed_count + 1, failed)

\* enforce_cache_limit(max_size_mb, cache_dir) on directory contents d: the
\* outcomes it can have, [d: the directory afterwards, ret: the count it
\* returns, failed: the files whose removal raised]
enforce_cache_limit(d, max_size_mb) ==
  LET current_size == get_cache_size_mb(d)
  IN  IF current_size <= max_size_mb * BytesPerMB
      THEN { [d |-> d, ret |-> 0, failed |-> {}] }
      ELSE { EvictLoop(files, 1, d, current_size, max_size_mb * BytesPerMB, fail, 0, {}) :
               files \in get_cache_files_sorted(d), fail \in FailSets(d) }

\* the loop of clear_cache / clear_cache_older_than over the files in doomed
ClearLoop(d, doomed, fail) ==
  [d |-> [x \in (DOMAIN d) \ (doomed \ fail) |-> d[x]],
   ret |-> Cardinality(doomed \ fail),
   failed |-> doomed \cap fail]

\* clear_cache leaving the files touched at the newest mtime in place
clear_cache_KeepsNewest(d) ==
  LET doomed == { n \in DOMAIN d : \E m \in DOMAIN d : d[n].mtime < d[m].mtime }
  IN  { ClearLoop(d, doomed, fail) : fail \in FailSets(d) }

\* clear_cache(cache_dir) on directory contents d
clear_cache(d) ==
  { ClearLoop(d, DOMAIN d, fail) : fail \in FailSets(d) }

\* clear_cache_older_than comparing with <= instead of <
clear_cache_older_than_NonStrict(d, hours, t) ==
  LET cutoff_time == t - (hours * SecondsPerHour)
      doomed == { n \in DOMAIN d : d[n].mtime <= cutoff_time }
  IN  { ClearLoop(d, doomed, fail) : fail \in FailSets(d) }

\* clear_cache_older_than(hours, cache_dir) on directory contents d at time t
clear_cache_older_than(d, hours, t) ==
  LET cutoff_time == t - (hours * SecondsPerHour)
      doomed == { n \in DOMAIN d : d[n].mtime < cutoff_time }
  IN  { ClearLoop(d, doomed, fail) : fail \in FailSets(d) }

\* round(x, 2) of x = bytes / 2^20, in hundredths: the nearest hundredth of a
\* megabyte, a tie going to the even one (bytes * 100 / 2^20 is computed as
\* bytes * 25 / 2^18, quotient and remainder apart, to stay within 32 bits)
RoundHundredthsMB(bytes) ==
  LET q == bytes \div 262144
      r == (bytes % 262144) * 25
      whole == q * 25 + (r \div 262144)
      rest == r % 262144
  IN  IF rest > 131072 \/ (rest = 131072 /\ whole % 2 = 1) THEN whole + 1 ELSE whole

\* get_cache_stats(cache_dir) on directory contents d; size_mb in hundredths
get_cache_stats(d, cache_dir) ==
  [file_count |-> Cardinality(DOMAIN d),
   size_mb |-> RoundHundredthsMB(get_cache_size_mb(d)),
   cache_dir |-> cache_dir]

\* the record of a call: its name, the directory and file it addresses, its
\* argument (the blob or source of a save, the hours of a clear, for a read
\* hit the TouchVal), its ceiling, its return value and
\* the files whose removal raised
Call(op, dir, name, arg, max, ret, failed) ==
  [op |-> op, dir |-> dir, name |-> name, arg |-> arg, max |-> max,
   ret |-> ret, failed |-> failed]

\* ------------------------------------------------------------ environment
\* the values the two ceilings can be given in the environment
StrVal(s) == [kind |-> "str", s |-> s]
EnvValues == { StrVal(ToString(m)) : m \in 1..MaxSizeMB }

\* int(v) for the decimal strings of EnvValues
IntOfStr(v) == CHOOSE m \in 1..MaxSizeMB : ToString(m) = v.s

\* no ceiling set in the environment
EnvUnset == [SRT_TTS_CACHE_SIZE_MB |-> None, TTS_OUTPUT_CACHE_SIZE_MB |-> None]
Environs == [{"SRT_TTS_CACHE_SIZE_MB", "TTS_OUTPUT_CACHE_SIZE_MB"} -> {None} \cup EnvValues]

\* int(os.environ.get(name, default)) in environment env
EnvInt(env, name, default) == IF env[name] = None THEN default ELSE IntOfStr(env[name])

\* the module-level assignments of tts_cache, run once when it is imported
ImportConfig(env) ==
  [DEFAULT_MAX_SIZE_MB |-> EnvInt(env, "SRT_TTS_CACHE_SIZE_MB", RawDefaultMB),
   OUTPUT_CACHE_MAX_SIZE_MB |-> EnvInt(env, "TTS_OUTPUT_CACHE_SIZE_MB", OutputDefaultMB)]

\* no key derived yet, no run in progress
NoKey == [fn |-> "none"]
NoRun == [pc |-> "idle"]

\* ------------------------------------------------------------ initial state
\* the module imported in environment env, the cache directories empty
InitIn(env) ==
  /\ fs = [dir \in Dirs |-> << >>]
  /\ now = 0
  /\ environ = env
  /\ config = ImportConfig(env)
  /\ last = Call("start", "", "", None, 0, None, {})

Init ==
  /\ InitIn(EnvUnset)
  /\ derived = NoKey
  /\ run = NoRun

\* ------------------------------------------------------------ actions
\* the clock advances
Tick ==
  /\ now < MaxTicks * SecondsPerHour
  /\ now' = now + SecondsPerHour
  /\ UNCHANGED <<fs, config, last, environ, derived, run>>

\* get_cached_audio reading the file without touching it
get_cached_audio_NoTouch(r) ==
  LET key == get_cache_key(r.text, r.voice, r.rate, r.mode)
      cache_path == get_cache_path(key, r.format, CACHE_DIR)
      n == cache_path.name
      d == fs[CACHE_DIR]
  IN  IF n \in DOMAIN d
      THEN /\ last' = Call("get_cached_audio", CACHE_DIR, n, TouchVal(d[n].mtime, now), 0,
                           d[n].data, {})
           /\ UNCHANGED <<fs, now, config, environ, derived, run>>
      ELSE /\ last' = Call("get_cached_audio", CACHE_DIR, n, None, 0, None, {})
           /\ UNCHANGED <<fs, now, config, environ, derived, run>>

\* get_cached_audio touching the path before it looks for the file: touch()
\* creates a missing file, and the read returns its empty content
get_cached_audio_TouchFirst(r) ==
  LET key == get_cache_key(r.text, r.voice, r.rate, r.mode)
      cache_path == get_cache_path(key, r.format, CACHE_DIR)
      n == cache_path.name
      d == fs[CACHE_DIR]
  IN  IF n \in DOMAIN d
      THEN /\ fs' = [fs EXCEPT ![CACHE_DIR] = Touch(d, n, now)]
           /\ last' = Call("get_cached_audio", CACHE_DIR, n, TouchVal(d[n].mtime, now), 0,
                           d[n].data, {})
           /\ UNCHANGED <<now, config, environ, derived, run>>
      ELSE /\ fs' = [fs EXCEPT ![CACHE_DIR] = WriteFile(d, n, EmptyBytes, now)]
           /\ last' = Call("get_cached_audio", CACHE_DIR, n, None, 0, EmptyBytes, {})
           /\ UNCHANGED <<now, config, environ, derived, run>>

get_cached_audio(r) ==
  LET key == get_cache_key(r.text, r.voice, r.rate, r.mode)
      cache_path == get_cache_path(key, r.format, CACHE_DIR)
      n == cache_path.name
      d == fs[CACHE_DIR]
  IN  IF n \in DOMAIN d
      THEN /\ fs' = [fs EXCEPT ![CACHE_DIR] = Touch(d, n, now)]
           /\ last' = Call("get_cached_audio", CACHE_DIR, n, TouchVal(d[n].mtime, now), 0,
                           d[n].data, {})
           /\ UNCHANGED <<now, config, environ, derived, run>>
      ELSE /\ last' = Call("get_cached_audio", CACHE_DIR, n, None, 0, None, {})
           /\ UNCHANGED <<fs, now, config, environ, derived, run>>

\* save_to_cache refusing only an absent blob, not an empty one
save_to_cache_NoEmptyCheck(r, audio_data, max_size_mb) ==
  LET key == get_cache_key(r.text, r.voice, r.rate, r.mode)
      cache_path == get_cache_path(key, r.format, CACHE_DIR)
      n == cache_path.name
  IN  IF audio_data = None
      THEN /\ last' = Call("save_to_cache", CACHE_DIR, n, audio_data, max_size_mb, None, {})
           /\ UNCHANGED <<fs, now, config, environ, derived, run>>
      ELSE \E e \in enforce_cache_limit(WriteFile(fs[CACHE_DIR], n, audio_data, now),
                                        max_size_mb) :
             /\ fs' = [fs EXCEPT ![CACHE_DIR] = e.d]
             /\ last' = Call("save_to_cache", CACHE_DIR, n, audio_data,
                             max_size_mb, cache_path, e.failed)
             /\ UNCHANGED <<now, config, environ, derived, run>>

\* save_to_cache measuring both directories against the ceiling
save_to_cache_SharedAccounting(r, audio_data, max_size_mb) ==
  LET key == get_cache_key(r.text, r.voice, r.rate, r.mode)
      cache_path == get_cache_path(key, r.format, CACHE_DIR)
      n == cache_path.name
      w == WriteFile(fs[CACHE_DIR], n, audio_data, now)
      total == get_cache_size_mb(w) + get_cache_size_mb(fs[OUTPUT_CACHE_DIR])
  IN  IF audio_data = None \/ BLen(audio_data) = 0
      THEN /\ last' = Call("save_to_cache", CACHE_DIR, n, audio_data, max_size_mb, None, {})
           /\ UNCHANGED <<fs, now, config, environ, derived, run>>
      ELSE \E e \in (IF total <= max_size_mb * BytesPerMB
                     THEN { [d |-> w, ret |-> 0, failed |-> {}] }
                     ELSE { EvictLoop(files, 1, w, total, max_size_mb * BytesPerMB, fail, 0, {}) :
                              files \in get_cache_files_sorted(w), fail \in FailSets(w) }) :
             /\ fs' = [fs EXCEPT ![CACHE_DIR] = e.d]
             /\ last' = Call("save_to_cache", CACHE_DIR, n, audio_data,
                             max_size_mb, cache_path, e.failed)
             /\ UNCHANGED <<now, config, environ, derived, run>>

save_to_cache(r, audio_data, max_size_mb) ==
  LET key == get_cache_key(r.text, r.voice, r.rate, r.mode)
      cache_path == get_cache_path(key, r.format, CACHE_DIR)
      n == cache_path.name
  IN  IF audio_data = None \/ BLen(audio_data) = 0
      THEN /\ last' = Call("save_to_cache", CACHE_DIR, n, audio_data, max_size_mb, None, {})
           /\ UNCHANGED <<fs, now, config, environ, derived, run>>
      ELSE \E e \in enforce_cache_limit(WriteFile(fs[CACHE_DIR], n, audio_data, now),
                                        max_size_mb) :
             /\ fs' = [fs EXCEPT ![CACHE_DIR] = e.d]
             /\ last' = Call("save_to_cache", CACHE_DIR, n, audio_data,
                             max_size_mb, cache_path, e.failed)
             /\ UNCHANGED <<now, config, environ, derived, run>>

get_cached_output(r) ==
  LET key == get_output_cache_key(r)
      cache_path == get_cache_path(key, r.format, OUTPUT_CACHE_DIR)
      n == cache_path.name
      d == fs[OUTPUT_CACHE_DIR]
  IN  IF n \in DOMAIN d
      THEN /\ fs' = [fs EXCEPT ![OUTPUT_CACHE_DIR] = Touch(d, n, now)]
           /\ last' = Call("get_cached_output", OUTPUT_CACHE_DIR, n, TouchVal(d[n].mtime, now), 0,
                           cache_path, {})
           /\ UNCHANGED <<now, config, environ, derived, run>>
      ELSE /\ last' = Call("get_cached_output", OUTPUT_CACHE_DIR, n, None, 0, None, {})
           /\ UNCHANGED <<fs, now, config, environ, derived, run>>

\* source is None when source_path does not exist, else the file's
\* [data, mtime]; shutil.copy2 copies the content and the source's mtime
save_output_to_cache(r, source) ==
  LET key == get_output_cache_key(r)
      cache_path == get_cache_path(key, r.format, OUTPUT_CACHE_DIR)
      n == cache_path.name
  IN  IF source = None
      THEN /\ last' = Call("save_output_to_cache", OUTPUT_CACHE_DIR, n, source,
                           config.OUTPUT_CACHE_MAX_SIZE_MB, None, {})
           /\ UNCHANGED <<fs, now, config, environ, derived, run>>
      ELSE \E e \in enforce_cache_limit(
                      WriteFile(fs[OUTPUT_CACHE_DIR], n, source.data, source.mtime),
                      config.OUTPUT_CACHE_MAX_SIZE_MB) :
             /\ fs' = [fs EXCEPT ![OUTPUT_CACHE_DIR] = e.d]
             /\ last' = Call("save_output_to_cache", OUTPUT_CACHE_DIR, n, source,
                             config.OUTPUT_CACHE_MAX_SIZE_MB, cache_path, e.failed)
             /\ UNCHANGED <<now, config, environ, derived, run>>

\* a direct call of enforce_cache_limit(max_size_mb, cache_dir)
enforce(max_size_mb, cache_dir) ==
  \E e \in enforce_cache_limit(fs[cache_dir], max_size_mb) :
    /\ fs' = [fs EXCEPT ![cache_dir] = e.d]
    /\ last' = Call("enforce_cache_limit", cache_dir, "", None, max_size_mb,
                    IntVal(e.ret), e.failed)
    /\ UNCHANGED <<now, config, environ, derived, run>>

\* a direct call of clear_cache(cache_dir)
clear(cache_dir) ==
  \E e \in clear_cache(fs[cache_dir]) :
    /\ fs' = [fs EXCEPT ![cache_dir] = e.d]
    /\ last' = Call("clear_cache", cache_dir, "", None, 0, IntVal(e.ret), e.failed)
    /\ UNCHANGED <<now, config, environ, derived, run>>

\* a direct call of clear_cache_older_than(hours, cache_dir)
clear_older_than(hours, cache_dir) ==
  \E e \in clear_cache_older_than(fs[cache_dir], hours, now) :
    /\ fs' = [fs EXCEPT ![cache_dir] = e.d]
    /\ last' = Call("clear_cache_older_than", cache_dir, "", IntVal(hours), 0,
                    IntVal(e.ret), e.failed)
    /\ UNCHANGED <<now, config, environ, derived, run>>

\* clear_all_caches(hours); hours is None or a number, and "if hours:" takes
\* the age-based branch only for a number other than 0
clear_all_caches(hours) ==
  LET aged == hours # None /\ hours.n # 0
  IN  \E a \in (IF aged THEN clear_cache_older_than(fs[CACHE_DIR], hours.n, now)
                        ELSE clear_cache(fs[CACHE_DIR])),
         o \in (IF aged THEN clear_cache_older_than(fs[OUTPUT_CACHE_DIR], hours.n, now)
                        ELSE clear_cache(fs[OUTPUT_CACHE_DIR])) :
        /\ fs' = [fs EXCEPT ![CACHE_DIR] = a.d, ![OUTPUT_CACHE_DIR] = o.d]
        /\ last' = Call("clear_all_caches", "", "", hours, 0,
                        [kind |-> "dict", api_cache_cleared |-> a.ret,
                         output_cache_cleared |-> o.ret],
                        a.failed \cup o.failed)
        /\ UNCHANGED <<now, config, environ, derived, run>>

\* ------------------------------------------------------------ synchronizer
\* Times of the synchronizer are in milliseconds: a timedelta of an SRT file
\* is a whole number of them, and len() of an AudioSegment counts them.  An
\* AudioSegment is modelled by the pieces it was concatenated from.

\* an encoded audio blob: its length, whether bytes 0-3 are "RIFF" and bytes
\* 8-11 "WAVE", and the duration it decodes to (ms < 0: decoding raises)
Wav(len, riff, wave, ms) ==
  [kind |-> "bytes", len |-> len, riff |-> riff, wave |-> wave, ms |-> ms]

\* is_valid_wav_data without the test of the length
is_valid_wav_data_NoLength(audio_data) ==
  /\ audio_data # None
  /\ "riff" \in DOMAIN audio_data
  /\ audio_data.riff
  /\ audio_data.wave

is_valid_wav_data(audio_data) ==
  /\ audio_data # None
  /\ BLen(audio_data) >= WavHeaderLen
  /\ "riff" \in DOMAIN audio_data
  /\ audio_data.riff
  /\ audio_data.wave

\* get_audio_duration, in ms: 0 for invalid data and when decoding raises
get_audio_duration(audio_data) ==
  IF ~is_valid_wav_data(audio_data) THEN 0
  ELSE IF audio_data.ms < 0 THEN 0
  ELSE audio_data.ms

\* what result.audio_data of a completed synthesis can be: nothing, bytes
\* that are no WAV, a WAV header around data that does not decode, speech
SpokenMs == {2000, 4000}
Junk == Wav(100, FALSE, FALSE, 0)
Undecodable == Wav(100, TRUE, TRUE, -1)
Speech(ms) == Wav(WavHeaderLen + 32 * ms, TRUE, TRUE, ms)
\* the outcomes of one request to the provider; None: canceled
ProviderResults == {None, EmptyBytes, Junk, Undecodable} \cup { Speech(ms) : ms \in SpokenMs }

\* int(t * 1000) for t the total_seconds() of a timedelta of ms milliseconds,
\* ms < 4000: the product is computed in IEEE-754 doubles and truncated, and
\* falls just below ms for the odd ms of 1001..1023 and for 2002, 2006, ...,
\* 2046 (1.001 * 1000 = 1000.9999999999999)
IntMs(ms) ==
  IF \/ (ms >= 1001 /\ ms <= 1023 /\ ms % 2 = 1)
     \/ (ms >= 2002 /\ ms <= 2046 /\ ms % 4 = 2)
  THEN ms - 1
  ELSE ms

\* max(0.5, min(3.0, default_duration / target_duration)) in hundredths, as
\* f"{speed_factor:.2f}" rounds it (to the nearest hundredth)
SpeedFactor(default_duration, target_duration) ==
  LET q == (100 * default_duration) \div target_duration
      r == (100 * default_duration) % target_duration
      h == IF 2 * r > target_duration \/ (2 * r = target_duration /\ q % 2 = 1)
           THEN q + 1 ELSE q
  IN  IF h < MinSpeed THEN MinSpeed ELSE IF h > MaxSpeed THEN MaxSpeed ELSE h

\* f"{speed_factor:.2f}" of a speed factor given in hundredths
FormatSpeed(h) ==
  ToString(h \div 100) \o "." \o ToString((h % 100) \div 10) \o ToString(h % 10)

\* AudioSegment.silent(duration=ms) and a decoded blob, made for segment i
Silent(ms, i) == [kind |-> "silence", ms |-> ms, seg |-> i]
Spoken(ms, i) == [kind |-> "speech", ms |-> ms, seg |-> i]

\* len(combined)
RECURSIVE TrackLen(_)
TrackLen(combined) ==
  IF combined = << >> THEN 0 ELSE combined[1].ms + TrackLen(Tail(combined))

\* the segments of an SRT file: start <= end, in ms
SegTimes == {0, 1001, 3000}
Segments ==
  { s \in [start : SegTimes, end : SegTimes, content : {"hi", "yo"}] : s.start <= s.end }
SegmentLists == UNION { [1..n -> Segments] : n \in 0..MaxSegments }
VOICE == "en-US-AriaNeural"

\* text_to_speech_azure returning what the provider gave without saving it
text_to_speech_azure_NoSave(d, text, prosody_rate, voice_name, available) ==
  LET key == get_cache_key(text, voice_name, prosody_rate, "azure")
      n == get_cache_path(key, "wav", CACHE_DIR).name
      hit == n \in DOMAIN d
      d1 == IF hit THEN Touch(d, n, now) ELSE d
  IN  IF hit /\ BLen(d[n].data) > 0
      THEN { [ret |-> d[n].data, d |-> d1, source |-> "cache"] }
      ELSE IF ~available
      THEN { [ret |-> None, d |-> d1, source |-> "none"] }
      ELSE { [ret |-> result, d |-> d1, source |-> "provider"] : result \in ProviderResults }

\* text_to_speech_azure(text, key, region, prosody_rate, voice_name) with
\* use_cache and max_cache_size_mb left to their defaults, on the raw cache
\* directory d: the outcomes it can have, [ret: the bytes returned or None,
\* d: the directory afterwards, source: where ret comes from]
text_to_speech_azure(d, text, prosody_rate, voice_name, available) ==
  LET key == get_cache_key(text, voice_name, prosody_rate, "azure")
      n == get_cache_path(key, "wav", CACHE_DIR).name
      hit == n \in DOMAIN d
      \* get_cached_audio touches and reads the file when it exists
      d1 == IF hit THEN Touch(d, n, now) ELSE d
  IN  IF hit /\ BLen(d[n].data) > 0
      THEN { [ret |-> d[n].data, d |-> d1, source |-> "cache"] }
      ELSE IF ~available
      THEN { [ret |-> None, d |-> d1, source |-> "none"] }
      ELSE UNION {
             IF result = None \/ BLen(result) = 0
             THEN { [ret |-> result, d |-> d1, source |-> "provider"] }
             ELSE { [ret |-> result, d |-> e.d, source |-> "provider"] :
                      e \in enforce_cache_limit(WriteFile(d1, n, result, now), SynthCacheMB) }
             : result \in ProviderResults }

\* check_azure_api_available, the two environment variables and
\* AZURE_AVAILABLE given: (is_available, speech_key, service_region)
check_azure_api_available(speech_key, service_region, available) ==
  <<speech_key # "" /\ service_region # "" /\ available, speech_key, service_region>>

\* the state of a run at the head of its loop (lines 239-241)
StartRun(segments, available) ==
  [pc |-> "loop", segments |-> segments, AZURE_AVAILABLE |-> available,
   i |-> 0, total |-> Len(segments), combined |-> << >>, success_count |-> 0,
   audio_data |-> None, retries |-> 0, attempts |-> 0, passed |-> 0, source |-> "none",
   prosody_rate |-> "1.0", audio_segment |-> None, error |-> None]

\* the segment the loop is at, and its target_duration in ms
Segment == run.segments[run.i + 1]
TargetMs == Segment.end - Segment.start

\* a request to text_to_speech_azure: the first of a phase (attempt 1, then
\* retries = 3) or a retry; attempts counts the requests of the phase, passed
\* the requests of the run whose result passed is_valid_wav_data
Request(rate, first, pc) ==
  \E o \in text_to_speech_azure(fs[CACHE_DIR], Segment.content, rate, VOICE,
                               run.AZURE_AVAILABLE) :
    /\ fs' = [fs EXCEPT ![CACHE_DIR] = o.d]
    /\ run' = [run EXCEPT !.pc = pc, !.audio_data = o.ret, !.source = o.source,
                          !.prosody_rate = rate,
                          !.retries = IF first THEN Retries ELSE run.retries - 1,
                          !.attempts = IF first THEN 1 ELSE run.attempts + 1,
                          !.passed = run.passed + (IF is_valid_wav_data(o.ret) THEN 1 ELSE 0)]
    /\ UNCHANGED <<now, config, last, environ, derived>>

\* line 251: the next segment, synthesized at the neutral rate
SynthesizeNeutral ==
  /\ run.pc = "loop" /\ run.i < run.total
  /\ Request("1.0", TRUE, "neutral")

\* lines 255-259
RetryNeutral ==
  /\ run.pc = "neutral"
  /\ ~is_valid_wav_data(run.audio_data) /\ run.retries > 0
  /\ Request("1.0", FALSE, "neutral")

\* lines 261-276: silence when the neutral phase failed or measures no
\* duration, else the adjusted rate; the division raises for a window of 0
Measure ==
  /\ run.pc = "neutral"
  /\ is_valid_wav_data(run.audio_data) \/ run.retries = 0
  /\ LET default_duration == get_audio_duration(run.audio_data)
     IN  IF ~is_valid_wav_data(run.audio_data) \/ default_duration <= 0
         THEN run' = [run EXCEPT !.pc = "append",
                                 !.audio_segment = Silent(IntMs(TargetMs), run.i)]
         ELSE IF TargetMs = 0
         THEN run' = [run EXCEPT !.pc = "raised", !.error = StrVal("ZeroDivisionError")]
         ELSE run' = [run EXCEPT !.pc = "adjust",
                                 !.prosody_rate =
                                   FormatSpeed(SpeedFactor(default_duration, TargetMs))]
  /\ UNCHANGED <<fs, now, config, last, environ, derived>>

\* line 279
SynthesizeAdjusted ==
  /\ run.pc = "adjust"
  /\ Request(run.prosody_rate, TRUE, "adjusted")

\* lines 283-287
RetryAdjusted ==
  /\ run.pc = "adjusted"
  /\ ~is_valid_wav_data(run.audio_data) /\ run.retries > 0
  /\ Request(run.prosody_rate, FALSE, "adjusted")

\* Decode counting the segment in success_count whatever its audio is
Decode_CountsSilence ==
  /\ run.pc = "adjusted"
  /\ is_valid_wav_data(run.audio_data) \/ run.retries = 0
  /\ IF ~is_valid_wav_data(run.audio_data)
     THEN run' = [run EXCEPT !.pc = "append",
                             !.audio_segment = Silent(IntMs(TargetMs), run.i),
                             !.success_count = run.success_count + 1]
     ELSE IF run.audio_data.ms < 0
     THEN run' = [run EXCEPT !.pc = "raised", !.error = StrVal("CouldntDecodeError")]
     ELSE run' = [run EXCEPT !.pc = "append",
                             !.audio_segment = Spoken(run.audio_data.ms, run.i),
                             !.success_count = run.success_count + 1]
  /\ UNCHANGED <<fs, now, config, last, environ, derived>>

\* lines 289-295: silence when the adjusted phase failed, else the decoded
\* audio; AudioSegment.from_file raises for data that does not decode
Decode ==
  /\ run.pc = "adjusted"
  /\ is_valid_wav_data(run.audio_data) \/ run.retries = 0
  /\ IF ~is_valid_wav_data(run.audio_data)
     THEN run' = [run EXCEPT !.pc = "append",
                             !.audio_segment = Silent(IntMs(TargetMs), run.i)]
     ELSE IF run.audio_data.ms < 0
     THEN run' = [run EXCEPT !.pc = "raised", !.error = StrVal("CouldntDecodeError")]
     ELSE run' = [run EXCEPT !.pc = "append",
                             !.audio_segment = Spoken(run.audio_data.ms, run.i),
                             !.success_count = run.success_count + 1]
  /\ UNCHANGED <<fs, now, config, last, environ, derived>>

\* AppendSegment putting the audio of the segment in front of the track
AppendSegment_Prepend ==
  /\ run.pc = "append"
  /\ LET start_ms == IntMs(Segment.start)
         current_length == TrackLen(run.combined)
         padded == IF start_ms > current_length
                   THEN Append(run.combined, Silent(start_ms - current_length, run.i))
                   ELSE run.combined
     IN  run' = [run EXCEPT !.pc = "loop", !.i = run.i + 1,
                            !.combined = <<run.audio_segment>> \o padded]
  /\ UNCHANGED <<fs, now, config, last, environ, derived>>

\* lines 297-304: silence up to start_ms when the track is shorter, then the
\* audio of the segment
AppendSegment ==
  /\ run.pc = "append"
  /\ LET start_ms == IntMs(Segment.start)
         current_length == TrackLen(run.combined)
         padded == IF start_ms > current_length
                   THEN Append(run.combined, Silent(start_ms - current_length, run.i))
                   ELSE run.combined
     IN  run' = [run EXCEPT !.pc = "loop", !.i = run.i + 1,
                            !.combined = Append(padded, run.audio_segment)]
  /\ UNCHANGED <<fs, now, config, last, environ, derived>>

\* lines 306-307
Return ==
  /\ run.pc = "loop" /\ run.i = run.total
  /\ run' = [run EXCEPT !.pc = "returned"]
  /\ UNCHANGED <<fs, now, config, last, environ, derived>>

\* ------------------------------------------------- sequential assembler
\* a file named in audio_files: missing, or its size in bytes and what
\* AudioSegment.from_file(audio_file, format="mp3") makes of it: an
\* exception (ms < 0) or audio of ms milliseconds, possibly none (ms = 0)
Missing == [exists |-> FALSE]
FileSizes == {MinFileSize - 1, MinFileSize, MinFileSize + 1}
FileMs == {-1, 0, 1000, 2000}
AudioFiles == {Missing} \cup [exists : {TRUE}, size : FileSizes, ms : FileMs]
FileLists == UNION { [1..n -> AudioFiles] : n \in 0..MaxFiles }

\* the AudioSegment held by combined, once it is one: its pieces
Track(pieces) == [kind |-> "audio", pieces |-> pieces]

\* the state of combine_audio_segments_edge at the head of its loop (lines
\* 327-328); decoded: the files handed to AudioSegment.from_file so far
StartEdge(audio_files) ==
  [pc |-> "files", audio_files |-> audio_files, i |-> 0, combined |-> None,
   total_loaded |-> 0, decoded |-> {}, reported |-> None]

\* lines 335-351: the audio loaded from a file, or None
LoadAudio(f, i) ==
  IF f.exists /\ f.size > MinFileSize /\ f.ms >= 0 THEN Spoken(f.ms, i) ELSE None

\* one iteration of the loop, lines 332-363: the file is decoded when it
\* exists and is large enough, counted when decoding did not raise, and its
\* audio, unless there is none, put behind a gap at the end of the track
LoadFile ==
  /\ run.pc = "files" /\ run.i < Len(run.audio_files)
  /\ LET f == run.audio_files[run.i + 1]
         audio_segment == LoadAudio(f, run.i)
         tried == f.exists /\ f.size > MinFileSize
         skip == audio_segment = None \/ audio_segment.ms = 0
     IN  run' = [run EXCEPT
                   !.i = run.i + 1,
                   !.decoded = IF tried THEN run.decoded \cup {run.i} ELSE run.decoded,
                   !.total_loaded = IF audio_segment # None THEN run.total_loaded + 1
                                    ELSE run.total_loaded,
                   !.combined =
                     IF skip THEN run.combined
                     ELSE IF run.combined = None THEN Track(<<audio_segment>>)
                     ELSE Track(run.combined.pieces \o <<Silent(GapMs, run.i), audio_segment>>)]
  /\ UNCHANGED <<fs, now, config, last, environ, derived>>

\* ReturnEdge returning an empty track when no segment was loaded
ReturnEdge_Empty ==
  /\ run.pc = "files" /\ run.i = Len(run.audio_files)
  /\ run' = [run EXCEPT
               !.pc = "combined",
               !.combined = IF run.combined = None THEN Track(<< >>) ELSE run.combined,
               !.reported = [valid |-> run.total_loaded, total |-> Len(run.audio_files)]]
  /\ UNCHANGED <<fs, now, config, last, environ, derived>>

\* lines 365-373: a second of silence when nothing was loaded, the counts
\* printed, the track returned
ReturnEdge ==
  /\ run.pc = "files" /\ run.i = Len(run.audio_files)
  /\ run' = [run EXCEPT
               !.pc = "combined",
               !.combined = IF run.combined = None
                            THEN Track(<<Silent(FallbackMs, run.i)>>) ELSE run.combined,
               !.reported = [valid |-> run.total_loaded, total |-> Len(run.audio_files)]]
  /\ UNCHANGED <<fs, now, config, last, environ, derived>>

\* os.environ[name] = value, or del os.environ[name] for value None, while
\* the program runs
SetEnv(name, value) ==
  /\ environ[name] # value
  /\ environ' = [environ EXCEPT ![name] = value]
  /\ UNCHANGED <<fs, now, config, last, derived, run>>

\* a call of get_cache_key / get_output_cache_key with the arguments chosen
DeriveKey ==
  /\ derived.fn = "get_cache_key" /\ derived.key = None
  /\ derived' = [derived EXCEPT !.key = StrVal(RawKey(derived.args))]
  /\ UNCHANGED <<fs, now, config, last, environ, run>>

DeriveOutputKey ==
  /\ derived.fn = "get_output_cache_key" /\ derived.key = None
  /\ derived' = [derived EXCEPT !.key = StrVal(OutKey(derived.args))]
  /\ UNCHANGED <<fs, now, config, last, environ, run>>

\* ------------------------------------------------------ concurrent writers
\* Two callers of save_to_cache, each at its own place in lines 124-141; the
\* file system serializes the single operations (open, write, remove), not
\* the calls.

\* a third blob: the length of Blob1, other bytes
Blob3 == Bytes(3, BytesPerMB)
Writers == {1, 2}
WriterBlobs == {Blob1, Blob2, Blob3}

\* the content of a file after a blob was written at offset 0 of what it
\* held: the blob, followed by what the file held beyond the blob's length
Overwrite(old, blob) ==
  IF BLen(blob) >= BLen(old) THEN blob
  ELSE [kind |-> "bytes", len |-> BLen(old), parts |-> <<blob, old>>]

\* the callers at the head of save_to_cache, none of them passing a ceiling;
\* order: the writers in the order of their writes
StartWriters(calls) ==
  [pc |-> "writers",
   w |-> [p \in Writers |-> [pc |-> "start", r |-> calls[p].r,
                             audio_data |-> calls[p].audio_data, ret |-> None]],
   order |-> << >>]

WriterFile(p) ==
  get_cache_path(get_cache_key(run.w[p].r.text, run.w[p].r.voice, run.w[p].r.rate,
                               run.w[p].r.mode),
                 run.w[p].r.format, CACHE_DIR).name

\* line 133, open(cache_path, 'wb'): the file is created or truncated
OpenFile(p) ==
  /\ run.pc = "writers" /\ run.w[p].pc = "start"
  /\ fs' = [fs EXCEPT ![CACHE_DIR] = WriteFile(fs[CACHE_DIR], WriterFile(p), EmptyBytes, now)]
  /\ run' = [run EXCEPT !.w[p].pc = "opened"]
  /\ UNCHANGED <<now, config, last, environ, derived>>

\* line 134 and the end of the with block: the blob goes to the file at the
\* offset of this writer's handle, 0, over what the file holds by then (a
\* file removed in between stays removed)
WriteBlob(p) ==
  /\ run.pc = "writers" /\ run.w[p].pc = "opened"
  /\ LET n == WriterFile(p)
         d == fs[CACHE_DIR]
     IN  fs' = [fs EXCEPT ![CACHE_DIR] =
                  IF n \in DOMAIN d
                  THEN WriteFile(d, n, Overwrite(d[n].data, run.w[p].audio_data), now)
                  ELSE d]
  /\ run' = [run EXCEPT !.w[p].pc = "written", !.order = Append(run.order, p)]
  /\ UNCHANGED <<now, config, last, environ, derived>>

\* lines 139-141: the ceiling enforced, the path returned
EnforceAndReturn(p) ==
  /\ run.pc = "writers" /\ run.w[p].pc = "written"
  /\ \E e \in enforce_cache_limit(fs[CACHE_DIR], config.DEFAULT_MAX_SIZE_MB) :
       /\ fs' = [fs EXCEPT ![CACHE_DIR] = e.d]
       /\ run' = [run EXCEPT !.w[p].pc = "done",
                             !.w[p].ret = PathVal(CACHE_DIR, WriterFile(p))]
  /\ UNCHANGED <<now, config, last, environ, derived>>

\* ------------------------------------------------------ concurrent reader
\* A caller of get_cached_audio (lines 80-97) or get_cached_output (lines
\* 355-368), at its own place between os.path.exists, Path.touch and the
\* read, while other callers save, evict and clear.

\* a read at its head; fn: the function, r: the request
StartReader(fn, r) == [pc |-> "reader", fn |-> fn, r |-> r, at |-> "start", ret |-> None]

ReaderDir == IF run.fn = "get_cached_audio" THEN CACHE_DIR ELSE OUTPUT_CACHE_DIR

ReaderPath ==
  IF run.fn = "get_cached_audio"
  THEN get_cache_path(get_cache_key(run.r.text, run.r.voice, run.r.rate, run.r.mode),
                      run.r.format, CACHE_DIR)
  ELSE get_cache_path(get_output_cache_key(run.r), run.r.format, OUTPUT_CACHE_DIR)

\* lines 83 and 362, os.path.exists(cache_path): None is returned when the
\* file is not there
ReaderExists ==
  /\ run.pc = "reader" /\ run.at = "start"
  /\ run' = IF ReaderPath.name \in DOMAIN fs[ReaderDir]
            THEN [run EXCEPT !.at = "exists"]
            ELSE [run EXCEPT !.at = "done", !.ret = None]
  /\ UNCHANGED <<fs, now, config, last, environ, derived>>

\* lines 86 and 364, Path(cache_path).touch(): the mtime of the file is set
\* to the clock, and a file that is not there any more is created, empty;
\* get_cached_output then returns the path
ReaderTouch ==
  /\ run.pc = "reader" /\ run.at = "exists"
  /\ LET d == fs[ReaderDir]
         n == ReaderPath.name
     IN  fs' = [fs EXCEPT ![ReaderDir] =
                  IF n \in DOMAIN d THEN Touch(d, n, now)
                  ELSE WriteFile(d, n, EmptyBytes, now)]
  /\ run' = IF run.fn = "get_cached_audio"
            THEN [run EXCEPT !.at = "touched"]
            ELSE [run EXCEPT !.at = "done", !.ret = ReaderPath]
  /\ UNCHANGED <<now, config, last, environ, derived>>

\* lines 88-95: the content of the file is returned, or None when opening
\* it raises because it is not there
ReaderRead ==
  /\ run.pc = "reader" /\ run.at = "touched"
  /\ LET d == fs[ReaderDir]
         n == ReaderPath.name
     IN  run' = [run EXCEPT !.at = "done",
                            !.ret = IF n \in DOMAIN d THEN d[n].data ELSE None]
  /\ UNCHANGED <<fs, now, config, last, environ, derived>>

\* --------------------------------------------------- command-line entry
\* main() of rvc/lib/tools/tts.py, step by step. A string the code inspects
\* is a sequence of one-character strings; a file name is what
\* os.path.splitext makes of it, with the suffix main() adds to the base.
MinMp3Size == 1000
SplitName(base, suffix, ext) == [base |-> base, suffix |-> suffix, ext |-> ext]
Whitespace == {" ", "\n"}
Texts == { << >>, <<" ">>, <<"h", "i">> }
RateArgs == {-10, 0, 10}
\* sys.argv[1] and the file it names: no name, a name of no file, or a file
\* with its text; a file holds text, or audio of a size in bytes
TextFiles ==
  { [name |-> SplitName("", "", ""), content |-> None],
    [name |-> SplitName("in", "", ".txt"), content |-> None] }
    \cup { [name |-> SplitName("in", "", ".txt"), content |-> [kind |-> "text", text |-> t]] :
             t \in Texts }
OutputFiles == { SplitName("out", "", ".wav"), SplitName("out", "", ".mp3") }
\* the sizes of the file Communicate.save leaves
SavedSizes == {0, MinMp3Size - 1, MinMp3Size, 2 * MinMp3Size}

\* text.strip(): the text without the whitespace at its ends
strip(text) ==
  LET kept == { k \in 1..Len(text) : text[k] \notin Whitespace }
  IN  IF kept = {} THEN << >>
      ELSE SubSeq(text, CHOOSE k \in kept : \A l \in kept : k <= l,
                        CHOOSE k \in kept : \A l \in kept : l <= k)

\* line 16: f"+{rate}%" if rate >= 0 else f"{rate}%"
rates(rate) == [sign |-> IF rate >= 0 THEN "+" ELSE "", n |-> rate, unit |-> "%"]

\* lines 32-33: os.path.splitext(output_file)[0] and f"{base_path}_temp.mp3"
base_path(output_file) == SplitName(output_file.base, output_file.suffix, "")
temp_mp3(output_file) ==
  SplitName(base_path(output_file).base, base_path(output_file).suffix \o "_temp", ".mp3")

\* lines 10-14: main() with its arguments parsed; files: the files it can see
StartMain(tts, text, rate, output_file) ==
  [pc |-> "main", at |-> "start",
   tts_file |-> tts.name, text |-> text, rate |-> rate, output_file |-> output_file,
   rates |-> None, started |-> FALSE, error |-> None,
   files |-> IF tts.content = None THEN [n \in {} |-> None]
             ELSE [n \in {tts.name} |-> tts.content]]

\* a file written from its start
WriteTo(files, path, content) ==
  [n \in DOMAIN files \cup {path} |-> IF n = path THEN content ELSE files[n]]

\* os.remove(path) after os.path.exists(path)
RemoveIfExists(files, path) == [n \in DOMAIN files \ {path} |-> files[n]]

\* lines 16-24: the text of tts_file, when it names a file, replaces the text
\* of the command line
ReadTextFile ==
  /\ run.pc = "main" /\ run.at = "start"
  /\ run' = [run EXCEPT !.at = "text",
                        !.rates = rates(run.rate),
                        !.text = IF run.tts_file # SplitName("", "", "") /\ run.tts_file \in DOMAIN run.files
                                 THEN run.files[run.tts_file].text
                                 ELSE run.text]
  /\ UNCHANGED <<fs, now, config, last, environ, derived>>

\* lines 27-29: nothing to synthesize
CheckText ==
  /\ run.pc = "main" /\ run.at = "text"
  /\ run' = IF run.text = << >> \/ strip(run.text) = << >>
            THEN [run EXCEPT !.at = "returned", !.error = StrVal("No text to synthesize")]
            ELSE [run EXCEPT !.at = "synthesize"]
  /\ UNCHANGED <<fs, now, config, last, environ, derived>>

\* lines 35-39, edge_tts.Communicate(text, voice, rate=rates).save(temp_mp3):
\* it raises, before the file is opened or with the file written in part, and
\* main() prints and returns; or it returns, having left a file of some size
\* or none
Synthesize ==
  /\ run.pc = "main" /\ run.at = "synthesize"
  /\ \/ \E left \in {None} \cup { [kind |-> "audio", size |-> s] : s \in {0, MinMp3Size - 1} } :
          run' = [run EXCEPT !.at = "returned", !.started = TRUE,
                             !.error = StrVal("Error during EdgeTTS synthesis"),
                             !.files = IF left = None THEN run.files
                                       ELSE WriteTo(run.files, temp_mp3(run.output_file), left)]
     \/ \E left \in {None} \cup { [kind |-> "audio", size |-> s] : s \in SavedSizes } :
          run' = [run EXCEPT !.at = "exists", !.started = TRUE,
                             !.files = IF left = None THEN run.files
                                       ELSE WriteTo(run.files, temp_mp3(run.output_file), left)]
  /\ UNCHANGED <<fs, now, config, last, environ, derived>>

\* lines 42-44
CheckExists ==
  /\ run.pc = "main" /\ run.at = "exists"
  /\ run' = IF temp_mp3(run.output_file) \notin DOMAIN run.files
            THEN [run EXCEPT !.at = "returned",
                             !.error = StrVal("EdgeTTS failed to create file")]
            ELSE [run EXCEPT !.at = "size"]
  /\ UNCHANGED <<fs, now, config, last, environ, derived>>

\* lines 46-51: a file of less than 1000 bytes is removed
CheckSize ==
  /\ run.pc = "main" /\ run.at = "size"
  /\ LET file_size == run.files[temp_mp3(run.output_file)].size
     IN  run' = IF file_size < MinMp3Size
                THEN [run EXCEPT !.at = "returned",
                                 !.error = StrVal("EdgeTTS created invalid file"),
                                 !.files = RemoveIfExists(run.files, temp_mp3(run.output_file))]
                ELSE [run EXCEPT !.at = "convert"]
  /\ UNCHANGED <<fs, now, config, last, environ, derived>>

\* lines 54-63: the MP3 is converted and exported as WAV to output_file, or
\* an exception is printed; the temporary file is removed either way
Convert ==
  /\ run.pc = "main" /\ run.at = "convert"
  /\ \E converted \in BOOLEAN :
       LET written == IF converted
                      THEN WriteTo(run.files, run.output_file, [kind |-> "audio", size |-> WavHeaderLen])
                      ELSE run.files
       IN  run' = [run EXCEPT !.at = "returned",
                              !.error = IF converted THEN None
                                        ELSE StrVal("Error converting MP3 to WAV"),
                              !.files = RemoveIfExists(written, temp_mp3(run.output_file))]
  /\ UNCHANGED <<fs, now, config, last, environ, derived>>

\* the blobs handed to is_valid_wav_data: None, or bytes of a length around
\* the offsets the function looks at, with or without "RIFF" at 0-3 (4 bytes
\* at least) and "WAVE" at 8-11 (12 bytes at least)
WavLens == {0, 3, 4, 11, 12, WavHeaderLen - 1, WavHeaderLen, WavHeaderLen + 1, 100}
WavInputs ==
  {None} \cup
  { b \in { Wav(len, riff, wave, ms) :
              len \in WavLens, riff \in BOOLEAN, wave \in BOOLEAN, ms \in {-1, 0, 2000} } :
      /\ b.riff => b.len >= 4
      /\ b.wave => b.len >= 12 }

BoolVal(b) == [kind |-> "bool", b |-> b]

\* a call of is_valid_wav_data with the blob chosen
CheckWav ==
  /\ derived.fn = "is_valid_wav_data" /\ derived.ret = None
  /\ derived' = [derived EXCEPT !.ret = BoolVal(is_valid_wav_data(derived.args))]
  /\ UNCHANGED <<fs, now, config, last, environ, run>>

\* ------------------------------------------------------------ inputs
\* the max_size_mb a caller of save_to_cache passes: an override or the default
SizeArgs == (1..MaxSizeMB) \cup {config.DEFAULT_MAX_SIZE_MB}

\* the calls of save_to_cache: a request, a blob (or none) and a ceiling
SaveCallsOf(requests) == (requests \X AudioInputs) \X SizeArgs

\* the source files handed to save_output_to_cache: missing, or a file
\* written at some earlier clock reading
SourceFiles == { [data |-> b, mtime |-> t] : b \in OutBlobs, t \in {u \in Times : u <= now} }
SaveOutputCalls ==
  (OutRequests \X {None})
    \cup { c \in OutRequests \X SourceFiles : c[1] = OutReq2 => c[2].data = OutBlob }

HourArgs == { IntVal(h) : h \in 0..MaxHours }

\* ------------------------------------------------------------ specifications
\* both caches, two requests each
Next ==
  \/ Tick
  \/ \E r \in {Req1, Req2} : get_cached_audio(r)
  \/ \E c \in { x \in SaveCallsOf({Req1, Req2}) : x[1][1] = Req2 => x[1][2] # Blob2 } :
        save_to_cache(c[1][1], c[1][2], c[2])
  \/ \E r \in OutRequests : get_cached_output(r)
  \/ \E c \in SaveOutputCalls : save_output_to_cache(c[1], c[2])
  \/ \E m \in 1..MaxSizeMB, dir \in Dirs : enforce(m, dir)
  \/ \E dir \in Dirs : clear(dir)
  \/ \E h \in 0..MaxHours, dir \in Dirs : clear_older_than(h, dir)
  \/ \E h \in {None} \cup HourArgs : clear_all_caches(h)

Spec == Init /\ [][Next]_vars

\* the raw-synthesis cache alone, three requests
NextRaw ==
  \/ Tick
  \/ \E r \in RawRequests : get_cached_audio(r)
  \/ \E c \in SaveCallsOf(RawRequests) : save_to_cache(c[1][1], c[1][2], c[2])
  \/ \E m \in 1..MaxSizeMB : enforce(m, CACHE_DIR)
  \/ clear(CACHE_DIR)
  \/ \E h \in 0..MaxHours : clear_older_than(h, CACHE_DIR)

SpecRaw == Init /\ [][NextRaw]_vars

\* the program started in any environment, the environment changed while it
\* runs, and saves that pass no ceiling of their own
InitEnv ==
  /\ \E env \in Environs : InitIn(env)
  /\ derived = NoKey
  /\ run = NoRun

NextEnv ==
  \/ \E name \in DOMAIN environ, value \in {None} \cup EnvValues : SetEnv(name, value)
  \/ \E r \in {Req1, Req2}, b \in Blobs : save_to_cache(r, b, config.DEFAULT_MAX_SIZE_MB)
  \/ \E r \in OutRequests : save_output_to_cache(r, [data |-> OutBlob, mtime |-> now])

SpecEnv == InitEnv /\ [][NextEnv]_vars

\* the two key functions applied to any tuple of arguments
InitKey ==
  /\ InitIn(EnvUnset)
  /\ run = NoRun
  /\ \/ \E t \in RawTuples : derived = [fn |-> "get_cache_key", args |-> t, key |-> None]
     \/ \E t \in OutTuples : derived = [fn |-> "get_output_cache_key", args |-> t, key |-> None]

NextKey ==
  \/ DeriveKey
  \/ DeriveOutputKey

SpecKey == InitKey /\ [][NextKey]_vars

\* one run of combine_audio_segments_azure over any list of segments, the
\* raw cache empty at its start
InitSync ==
  /\ InitIn(EnvUnset)
  /\ derived = NoKey
  /\ \E segments \in SegmentLists, available \in BOOLEAN : run = StartRun(segments, available)

NextSync ==
  \/ SynthesizeNeutral
  \/ RetryNeutral
  \/ Measure
  \/ SynthesizeAdjusted
  \/ RetryAdjusted
  \/ Decode
  \/ AppendSegment
  \/ Return

SpecSync == InitSync /\ [][NextSync]_vars

\* one call of combine_audio_segments_edge on any list of files
InitEdge ==
  /\ InitIn(EnvUnset)
  /\ derived = NoKey
  /\ \E audio_files \in FileLists : run = StartEdge(audio_files)

NextEdge ==
  \/ LoadFile
  \/ ReturnEdge

SpecEdge == InitEdge /\ [][NextEdge]_vars

\* two concurrent calls of save_to_cache, on the same key or on two
InitRace ==
  /\ InitIn(EnvUnset)
  /\ derived = NoKey
  /\ \E calls \in [Writers -> [r : {Req1, Req2}, audio_data : WriterBlobs]] :
       run = StartWriters(calls)

NextRace ==
  \/ \E p \in Writers : OpenFile(p)
  \/ \E p \in Writers : WriteBlob(p)
  \/ \E p \in Writers : EnforceAndReturn(p)

SpecRace == InitRace /\ [][NextRace]_vars

\* one read of either cache, step by step, among saves, evictions and clears
\* of other callers
InitRead ==
  /\ InitIn(EnvUnset)
  /\ derived = NoKey
  /\ \/ \E r \in {Req1, Req2} : run = StartReader("get_cached_audio", r)
     \/ \E r \in OutRequests : run = StartReader("get_cached_output", r)

NextRead ==
  \/ ReaderExists
  \/ ReaderTouch
  \/ ReaderRead
  \/ \E r \in {Req1, Req2}, b \in Blobs : save_to_cache(r, b, config.DEFAULT_MAX_SIZE_MB)
  \/ \E r \in OutRequests : save_output_to_cache(r, [data |-> OutBlob, mtime |-> now])
  \/ \E m \in 1..MaxSizeMB, dir \in Dirs : enforce(m, dir)
  \/ \E dir \in Dirs : clear(dir)

SpecRead == InitRead /\ [][NextRead]_vars

\* one run of main() for every command line
InitMain ==
  /\ InitIn(EnvUnset)
  /\ derived = NoKey
  /\ \E tts \in TextFiles, text \in Texts, rate \in RateArgs, output_file \in OutputFiles :
       run = StartMain(tts, text, rate, output_file)

NextMain ==
  \/ ReadTextFile
  \/ CheckText
  \/ Synthesize
  \/ CheckExists
  \/ CheckSize
  \/ Convert

SpecMain == InitMain /\ [][NextMain]_vars

\* is_valid_wav_data applied to any blob
InitWav ==
  /\ InitIn(EnvUnset)
  /\ run = NoRun
  /\ \E b \in WavInputs : derived = [fn |-> "is_valid_wav_data", args |-> b, ret |-> None]

NextWav == CheckWav

SpecWav == InitWav /\ [][NextWav]_vars

\* ------------------------------------------------------------ properties
TypeOK ==
  /\ now \in Times
  /\ \A dir \in Dirs : \A n \in DOMAIN fs[dir] : fs[dir][n].mtime \in Times

\* a step that is a call of op (the clock stands still during a call)
CallStep(op) == now' = now /\ last'.op = op

\* the files a step removes from a directory
Removed(dir) == (DOMAIN fs[dir]) \ (DOMAIN fs'[dir])

\* a step neither adds a file to a directory nor changes one it keeps
OthersKept(dir) ==
  \A n \in DOMAIN fs'[dir] : n \in DOMAIN fs[dir] /\ fs'[dir][n] = fs[dir][n]

\* the ceiling of the last call, in bytes
LastLimit == last.max * BytesPerMB

\* C1: a save_to_cache that returns a path (no removal failing) leaves the
\* entry it wrote in the store, with the payload it wrote, also when that
\* entry alone is larger than the ceiling: the eviction it triggers never
\* removes it.
C1_WrittenEntrySurvives ==
  (last.op = "save_to_cache" /\ last.ret # None /\ last.failed = {})
    => /\ last.name \in DOMAIN fs[CACHE_DIR]
       /\ fs[CACHE_DIR][last.name].data = last.arg

\* C2: after enforce_cache_limit(max) with no removal failing (called
\* directly or by save_to_cache), the directory's size is <= max, or it
\* holds exactly one entry and that entry alone is larger than max.
C2_EvictionInvariant ==
  (/\ last.op \in {"enforce_cache_limit", "save_to_cache"}
   /\ last.ret # None
   /\ last.failed = {})
    => LET d == fs[last.dir]
       IN  \/ get_cache_size_mb(d) <= LastLimit
           \/ /\ Cardinality(DOMAIN d) = 1
              /\ \A n \in DOMAIN d : BLen(d[n].data) > LastLimit

\* a state after an eviction that had to remove an entry and kept another
C2_Witness ==
  /\ last.op = "enforce_cache_limit"
  /\ last.failed = {}
  /\ last.ret.n >= 1
  /\ DOMAIN fs[last.dir] # {}
  /\ get_cache_size_mb(fs[last.dir]) <= LastLimit

\* C3: enforce_cache_limit with no removal failing removes the shortest
\* oldest-first prefix that brings the size to <= the limit: nothing (and it
\* returns 0) when the size is already <= the limit; no entry while a
\* strictly older one stays; it ends with the size <= the limit or the
\* directory empty; the entry it removed last was still needed; it returns
\* the number removed and leaves the other entries as they were.
C3_FifoPrefix ==
  [][ (CallStep("enforce_cache_limit") /\ last'.failed = {})
        => LET dir == last'.dir
               d == fs[dir]
               limit == last'.max * BytesPerMB
               removed == Removed(dir)
           IN  /\ OthersKept(dir)
               /\ last'.ret = IntVal(Cardinality(removed))
               /\ get_cache_size_mb(d) <= limit => (removed = {} /\ last'.ret = IntVal(0))
               /\ \A r \in removed : \A k \in DOMAIN fs'[dir] : d[r].mtime <= d[k].mtime
               /\ get_cache_size_mb(fs'[dir]) <= limit \/ DOMAIN fs'[dir] = {}
               /\ removed # {} =>
                    \E x \in removed :
                      /\ \A r \in removed : d[r].mtime <= d[x].mtime
                      /\ get_cache_size_mb(fs'[dir]) + BLen(d[x].data) > limit
    ]_vars

\* a state after an eviction that removed an older entry and kept two
\* newer ones
C3_Witness ==
  /\ last.op = "enforce_cache_limit"
  /\ last.failed = {}
  /\ last.ret.n >= 1
  /\ Cardinality(DOMAIN fs[last.dir]) >= 2
  /\ \A n \in DOMAIN fs[last.dir] : fs[last.dir][n].mtime = now
  /\ now > 0

\* the reads, and the calls that run an eviction
GetOps == {"get_cached_audio", "get_cached_output"}
SaveOps == {"save_to_cache", "save_output_to_cache"}

\* a step that runs an eviction on the directory of the last read without
\* any removal failing and without rewriting the entry that was read, and
\* removes exactly one entry
EvictsOneAfterRead ==
  /\ now' = now
  /\ last.op \in GetOps /\ last.ret # None
  /\ last'.op \in SaveOps \cup {"enforce_cache_limit"}
  /\ last'.dir = last.dir
  /\ last'.failed = {}
  /\ last'.op \in SaveOps => (last'.ret # None /\ last'.name # last.name)
  /\ LET written == IF last'.op \in SaveOps THEN {last'.name} ELSE {}
     IN  Cardinality(((DOMAIN fs[last.dir]) \cup written) \ (DOMAIN fs'[last.dir])) = 1

\* the entry that was read is kept, and when it is one of two entries of a
\* directory evicted directly, the other one is removed
ReadEntryKept ==
  /\ last.name \in DOMAIN fs'[last.dir]
  /\ (last'.op = "enforce_cache_limit" /\ Cardinality(DOMAIN fs[last.dir]) = 2)
       => DOMAIN fs'[last.dir] = {last.name}

\* C4 as claimed, in the raw cache (where an entry's mtime is the clock
\* reading of its last write or read): entry A was written before entry B,
\* A is then read, and an eviction that removes exactly one entry follows
\* (B not being rewritten by the save that triggers it): B is removed and A
\* is preserved.
C4_ReadProtectsEntry ==
  [][ (/\ EvictsOneAfterRead
       /\ last.op = "get_cached_audio"
       /\ \E b \in (DOMAIN fs[last.dir]) \ {last.name, last'.name} :
            last.arg.before < fs[last.dir][b].mtime)
        => ReadEntryKept
    ]_vars

\* C4 amended: a read hit sets the entry's mtime to the clock reading of the
\* read, so that when another entry B was last touched at a strictly earlier
\* clock reading and an eviction that removes exactly one entry follows (B
\* not being rewritten by the save that triggers it), the entry that was
\* read is preserved (and B is removed when A and B are the only entries).
C4_ReadProtectsEntryWhenLater ==
  [][ (/\ EvictsOneAfterRead
       /\ \E b \in (DOMAIN fs[last.dir]) \ {last.name, last'.name} :
            fs[last.dir][b].mtime < last.arg.at)
        => ReadEntryKept
    ]_vars

\* a state after a read hit that moved the entry past a younger one, in a
\* directory of more than one megabyte
C4_Witness ==
  /\ last.op \in GetOps /\ last.ret # None
  /\ last.name \in DOMAIN fs[last.dir]
  /\ fs[last.dir][last.name].mtime = last.arg.at
  /\ \E b \in (DOMAIN fs[last.dir]) \ {last.name} :
       /\ last.arg.before <= fs[last.dir][b].mtime
       /\ fs[last.dir][b].mtime < last.arg.at
  /\ get_cache_size_mb(fs[last.dir]) > BytesPerMB

\* C5: get_cached_audio right after a save_to_cache of a non-empty blob with
\* the same arguments returns exactly the blob of that save (the latest one
\* when the key was saved twice).
C5_RoundTrip ==
  [][ (/\ CallStep("get_cached_audio")
       /\ last.op = "save_to_cache"
       /\ last.arg # None /\ last.arg # EmptyBytes
       /\ last'.name = last.name)
        => last'.ret = last.arg
    ]_vars

\* C6: save_to_cache with an absent or zero-length blob returns None, writes
\* no entry, changes no entry or mtime and runs no eviction.
C6_EmptySaveIsNoOp ==
  [][ (CallStep("save_to_cache") /\ last'.arg \in {None, EmptyBytes})
        => (last'.ret = None /\ fs' = fs)
    ]_vars

\* a state after an empty save on a directory larger than the ceiling the
\* call was given
C6_Witness ==
  /\ last.op = "save_to_cache"
  /\ last.arg \in {None, EmptyBytes}
  /\ last.ret = None
  /\ get_cache_size_mb(fs[CACHE_DIR]) > LastLimit

\* C7: save_output_to_cache with a source file of zero length returns None
\* and stores no entry in the output cache.
C7_EmptyOutputRefused ==
  (/\ last.op = "save_output_to_cache"
   /\ last.arg # None
   /\ BLen(last.arg.data) = 0)
    => /\ last.ret = None
       /\ last.name \in DOMAIN fs[OUTPUT_CACHE_DIR]
            => fs[OUTPUT_CACHE_DIR][last.name].data # EmptyBytes

\* C8: a get (get_cached_audio, get_cached_output) for a key without an
\* entry returns None and changes nothing in either directory.
C8_MissIsNoOp ==
  [][ (/\ now' = now
       /\ last'.op \in GetOps
       /\ last'.name \notin DOMAIN fs[last'.dir])
        => (last'.ret = None /\ fs' = fs)
    ]_vars

\* a state after a miss in a directory that holds other entries
C8_Witness ==
  /\ last.op \in GetOps
  /\ last.ret = None
  /\ last.name \notin DOMAIN fs[last.dir]
  /\ DOMAIN fs[last.dir] # {}

\* C9: when removals fail during enforce_cache_limit, the call still
\* returns, the files that failed stay and are not counted, the loop goes on
\* oldest-first over the files it can remove until the (uncredited) size is
\* <= the limit or none is left, and the count returned is the number of
\* files removed.
C9_FailureSkipped ==
  [][ (CallStep("enforce_cache_limit") /\ last'.failed # {})
        => LET dir == last'.dir
               d == fs[dir]
               limit == last'.max * BytesPerMB
               removed == Removed(dir)
           IN  /\ OthersKept(dir)
               /\ last'.failed \subseteq DOMAIN fs'[dir]
               /\ last'.ret = IntVal(Cardinality(removed))
               /\ \/ get_cache_size_mb(fs'[dir]) <= limit
                  \/ DOMAIN fs'[dir] = last'.failed
               /\ \A r \in removed : \A k \in (DOMAIN fs'[dir]) \ last'.failed :
                    d[r].mtime <= d[k].mtime
    ]_vars

\* a state after an eviction in which the oldest file could not be removed
\* and a younger one was removed instead
C9_Witness ==
  /\ last.op = "enforce_cache_limit"
  /\ last.failed # {}
  /\ last.ret.n >= 1
  /\ last.failed \subseteq DOMAIN fs[last.dir]
  /\ \A f \in last.failed : fs[last.dir][f].mtime < now
  /\ \E k \in (DOMAIN fs[last.dir]) \ last.failed : fs[last.dir][k].mtime = now
  /\ get_cache_size_mb(fs[last.dir]) <= LastLimit

\* what one age-based clear of a directory does, as claimed: it removes
\* exactly the entries older than now - hours, all of them for hours = 0 and
\* none for hours beyond every entry's age, and counts them
AgedClearAsClaimed(dir, hours, count) ==
  LET d == fs[dir]
      old == { n \in DOMAIN d : d[n].mtime < now - hours * SecondsPerHour }
  IN  /\ OthersKept(dir)
      /\ Removed(dir) = old
      /\ count = Cardinality(Removed(dir))
      /\ hours = 0 => DOMAIN fs'[dir] = {}
      /\ (\A n \in DOMAIN d : now - d[n].mtime < hours * SecondsPerHour)
           => Removed(dir) = {}

\* what one age-based clear of a directory does: it removes exactly the
\* entries whose mtime is strictly less than now - hours and whose removal
\* does not fail; for hours = 0 the entries that stay are those touched at
\* the current clock reading (and those whose removal failed)
AgedClearExact(dir, hours, count, failed) ==
  LET d == fs[dir]
      old == { n \in DOMAIN d : d[n].mtime < now - hours * SecondsPerHour }
  IN  /\ OthersKept(dir)
      /\ Removed(dir) = old \ failed
      /\ count = Cardinality(Removed(dir))
      /\ hours = 0 =>
           DOMAIN fs'[dir] = { n \in DOMAIN d : d[n].mtime = now \/ n \in failed }
      /\ (\A n \in DOMAIN d : now - d[n].mtime < hours * SecondsPerHour)
           => Removed(dir) = {}

\* C10 as claimed: clear_cache_older_than(age), no removal failing, removes
\* exactly the entries last touched before now - age, every entry when age
\* is 0 and none when age exceeds the age of every entry, and returns the
\* number removed.
C10_AgedClear ==
  [][ (CallStep("clear_cache_older_than") /\ last'.failed = {})
        => AgedClearAsClaimed(last'.dir, last'.arg.n, last'.ret.n)
    ]_vars

\* C10 amended: clear_cache_older_than(age), also through clear_all_caches,
\* removes exactly the entries whose mtime is strictly less than now - age
\* and whose removal does not fail, and returns their number; with age 0 an
\* entry touched at the current clock reading stays; with an age beyond the
\* age of every entry it removes none.
C10_AgedClearStrict ==
  [][ /\ CallStep("clear_cache_older_than")
        => AgedClearExact(last'.dir, last'.arg.n, last'.ret.n, last'.failed)
      /\ (CallStep("clear_all_caches") /\ last'.arg # None /\ last'.arg # IntVal(0))
        => /\ AgedClearExact(CACHE_DIR, last'.arg.n, last'.ret.api_cache_cleared,
                             last'.failed)
           /\ AgedClearExact(OUTPUT_CACHE_DIR, last'.arg.n,
                             last'.ret.output_cache_cleared, last'.failed)
    ]_vars

\* a state after an age-based clear that removed an entry and kept another
C10_Witness ==
  /\ last.op = "clear_cache_older_than"
  /\ last.failed = {}
  /\ last.ret.n >= 1
  /\ DOMAIN fs[last.dir] # {}

\* C11: clear_cache removes every entry of the directory whose removal does
\* not fail, leaves the other directory alone and returns the number of
\* entries it removed; with no removal failing the directory afterwards has
\* no entry, its statistics are 0 files and size 0, and a get that follows
\* the clear in that directory misses.
C11_ClearRemovesAll ==
  [][ /\ CallStep("clear_cache")
        => LET dir == last'.dir
           IN  /\ OthersKept(dir)
               /\ Removed(dir) = (DOMAIN fs[dir]) \ last'.failed
               /\ last'.ret = IntVal(Cardinality(Removed(dir)))
               /\ \A other \in Dirs \ {dir} : fs'[other] = fs[other]
               /\ last'.failed = {} =>
                    /\ fs'[dir] = << >>
                    /\ last'.ret = IntVal(Cardinality(DOMAIN fs[dir]))
                    /\ get_cache_size_mb(fs'[dir]) = 0
                    /\ get_cache_stats(fs'[dir], dir).file_count = 0
                    /\ get_cache_stats(fs'[dir], dir).size_mb = 0
      /\ (/\ now' = now
          /\ last.op = "clear_cache" /\ last.failed = {}
          /\ last'.op \in GetOps /\ last'.dir = last.dir)
        => (last'.ret = None /\ fs' = fs)
    ]_vars

\* a state after a clear that removed two entries of different age, none
\* failing
C11_Witness ==
  /\ last.op = "clear_cache"
  /\ last.failed = {}
  /\ last.ret.n >= 2
  /\ now > 0
  /\ fs[last.dir] = << >>

\* the directory of a save as it is after the write and before the eviction
Written ==
  IF last'.op = "save_to_cache"
  THEN WriteFile(fs[CACHE_DIR], last'.name, last'.arg, now)
  ELSE WriteFile(fs[OUTPUT_CACHE_DIR], last'.name, last'.arg.data, last'.arg.mtime)

\* C12: get_cached_audio and save_to_cache (with its eviction) leave the
\* output directory as it was, get_cached_output and save_output_to_cache
\* (with its eviction) leave the raw directory as it was, and the eviction of
\* a save compares the size of its own directory alone with its own ceiling
\* (the max_size_mb of the call for the raw cache, OUTPUT_CACHE_MAX_SIZE_MB
\* for the output cache): it removes nothing when that size is <= the
\* ceiling, whatever the other directory holds, and something when it is
\* larger.
C12_NamespacesIsolated ==
  [][ /\ (now' = now /\ last'.op \in {"get_cached_audio", "save_to_cache"})
        => (last'.dir = CACHE_DIR /\ fs'[OUTPUT_CACHE_DIR] = fs[OUTPUT_CACHE_DIR])
      /\ (now' = now /\ last'.op \in {"get_cached_output", "save_output_to_cache"})
        => (last'.dir = OUTPUT_CACHE_DIR /\ fs'[CACHE_DIR] = fs[CACHE_DIR])
      /\ (now' = now /\ last'.op = "save_output_to_cache")
        => last'.max = config.OUTPUT_CACHE_MAX_SIZE_MB
      /\ (now' = now /\ last'.op \in SaveOps /\ last'.ret # None /\ last'.failed = {})
        => LET limit == last'.max * BytesPerMB
           IN  /\ get_cache_size_mb(Written) <= limit => fs'[last'.dir] = Written
               /\ get_cache_size_mb(Written) > limit =>
                    /\ DOMAIN fs'[last'.dir] # DOMAIN Written
                    /\ \/ get_cache_size_mb(fs'[last'.dir]) <= limit
                       \/ fs'[last'.dir] = << >>
    ]_vars

\* a state after a raw save that evicted nothing although the two
\* directories together hold more than the ceiling of the call
C12_Witness ==
  /\ last.op = "save_to_cache"
  /\ last.ret # None /\ last.failed = {}
  /\ last.name \in DOMAIN fs[CACHE_DIR]
  /\ Cardinality(DOMAIN fs[CACHE_DIR]) = 2
  /\ get_cache_size_mb(fs[CACHE_DIR]) <= LastLimit
  /\ get_cache_size_mb(fs[OUTPUT_CACHE_DIR]) > LastLimit

\* the ceiling the environment configures for a directory at this moment
EnvCeiling(dir) ==
  IF dir = CACHE_DIR THEN EnvInt(environ, "SRT_TTS_CACHE_SIZE_MB", RawDefaultMB)
  ELSE EnvInt(environ, "TTS_OUTPUT_CACHE_SIZE_MB", OutputDefaultMB)

\* C13: the eviction of a save that passes no ceiling of its own
\* (save_to_cache with max_size_mb left to its default, save_output_to_cache)
\* enforces the ceiling the environment configures when the save is made, also
\* after the environment was changed since start-up: with no removal failing
\* the directory ends <= that ceiling or empty.
C13_CeilingReadAtEviction ==
  [][ (/\ now' = now /\ environ' = environ
       /\ last'.op \in SaveOps /\ last'.ret # None /\ last'.failed = {})
        => /\ last'.max = EnvCeiling(last'.dir)
           /\ \/ get_cache_size_mb(fs'[last'.dir]) <= EnvCeiling(last'.dir) * BytesPerMB
              \/ fs'[last'.dir] = << >>
    ]_vars

\* the tuples that differ from t in the one field f
RawVariants(t, f) ==
  { [t EXCEPT ![f] = v] : v \in (IF f = "mode" THEN Modes ELSE Fields) \ {t[f]} }
OutVariants(t, f) == { [t EXCEPT ![f] = v] : v \in OutFieldValues[f] \ {t[f]} }

\* C14: the key derived from a tuple of arguments is a function of the tuple,
\* and every tuple that differs from it in exactly one field (text, voice,
\* rate or mode; for the output key text, voice, rate, model, pitch, index
\* rate, protect, pitch method, split, autotune or clean flag) has a
\* different key string, hence a different key.
C14_OneFieldChangesKey ==
  /\ (derived.fn = "get_cache_key" /\ derived.key # None)
       => \A f \in DOMAIN derived.args : \A u \in RawVariants(derived.args, f) :
            StrVal(RawKey(u)) # derived.key
  /\ (derived.fn = "get_output_cache_key" /\ derived.key # None)
       => \A f \in DOMAIN derived.args : \A u \in OutVariants(derived.args, f) :
            StrVal(OutKey(u)) # derived.key

\* a raw key derived from arguments that hold the separator
C14_Witness ==
  /\ derived.fn = "get_cache_key" /\ derived.key # None
  /\ derived.args.voice \notin PlainFields
  /\ derived.args.rate \notin PlainFields
  /\ derived.args.text \notin PlainFields

\* C15 as claimed: no tuple (mode, voice, rate, text) other than the one the
\* key was derived from has the same key string, also when fields hold ":".
C15_KeyStringInjective ==
  (derived.fn = "get_cache_key" /\ derived.key # None)
    => \A u \in RawTuples : u # derived.args => StrVal(RawKey(u)) # derived.key

\* the tuples whose voice and rate do not hold the separator
PlainTuples == { t \in RawTuples : t.voice \in PlainFields /\ t.rate \in PlainFields }

\* C15 amended: among the tuples whose mode, voice and rate do not hold ":"
\* (the text, which comes last, may hold it), no two distinct tuples have the
\* same key string.
C15_KeyStringInjectiveOnPlain ==
  (derived.fn = "get_cache_key" /\ derived.key # None /\ derived.args \in PlainTuples)
    => \A u \in PlainTuples : u # derived.args => StrVal(RawKey(u)) # derived.key

\* a key derived from a tuple with a plain voice and rate and a text that
\* holds the separator
C15_Witness ==
  /\ derived.fn = "get_cache_key" /\ derived.key # None
  /\ derived.args \in PlainTuples
  /\ derived.args.text \notin PlainFields
  /\ Len(derived.args.voice) # Len(derived.args.rate)

\* ---------------------------------------------- properties of the synchronizer
\* C16: whatever the segments (end >= start) and whatever each synthesis
\* returns (nothing, invalid data, valid data), combine_audio_segments_azure
\* does not raise: the run goes on to the next segment and returns.  (Data
\* with a valid header that does not decode is left to its own claim.)
C16_NeverRaises ==
  run.pc = "raised" => run.error = StrVal("CouldntDecodeError")

\* a step that ends a synthesis phase whose last result is invalid
PhaseFailed ==
  /\ run.pc \in {"neutral", "adjusted"}
  /\ run'.pc \notin {run.pc, "idle"}
  /\ ~is_valid_wav_data(run.audio_data)

\* C17: a synthesis phase of a segment issues at most 1 + 3 requests; a
\* request is repeated only after a result that is absent or invalid, never
\* after a valid one; a phase ends in failure only after all 4 requests, and
\* the audio of the segment is then silence of exactly target_duration.
C17_RetryPolicy ==
  [][ /\ run'.attempts <= 1 + Retries
      /\ (run'.pc = run.pc /\ run' # run /\ run.pc \in {"neutral", "adjusted"})
           => (/\ ~is_valid_wav_data(run.audio_data)
               /\ run'.attempts = run.attempts + 1)
      /\ PhaseFailed
           => (/\ run.attempts = 1 + Retries
               /\ run'.pc = "append"
               /\ run'.audio_segment = Silent(TargetMs, run.i))
    ]_vars

Max(a, b) == IF a >= b THEN a ELSE b

\* C18: appending segment i makes the track max(length before, start_i) +
\* length of the segment's audio long; what was in the track stays as it
\* was, at its place; silence is added before the audio only when the track
\* is shorter than start_i, and then the audio begins exactly at start_i.
C18_PadNeverTruncate ==
  [][ (run.pc = "append" /\ run'.pc = "loop")
        => LET before == TrackLen(run.combined)
               after == TrackLen(run'.combined)
               start == Segment.start
               audio == run.audio_segment
           IN  /\ after = Max(before, start) + audio.ms
               /\ after >= before
               /\ SubSeq(run'.combined, 1, Len(run.combined)) = run.combined
               /\ run'.combined[Len(run'.combined)] = audio
               /\ Len(run'.combined) = Len(run.combined) + (IF before < start THEN 2 ELSE 1)
               /\ before <= start => after - audio.ms = start
    ]_vars

\* C19: when the neutral-rate synthesis of a segment gave valid audio of a
\* positive duration, the segment is synthesized again, at the rate
\* duration / target_duration when that lies in [0.5, 3.0], at 0.5 when it
\* is below and at 3.0 when it is above.
C19_ClampedRate ==
  [][ (/\ run.pc = "neutral" /\ run'.pc \notin {"neutral", "idle"}
       /\ is_valid_wav_data(run.audio_data)
       /\ get_audio_duration(run.audio_data) > 0)
        => LET measured == get_audio_duration(run.audio_data)
           IN  /\ run'.pc = "adjust"
               /\ \E h \in MinSpeed..MaxSpeed :
                    /\ run'.prosody_rate = FormatSpeed(h)
                    /\ 100 * measured < MinSpeed * TargetMs => h = MinSpeed
                    /\ 100 * measured > MaxSpeed * TargetMs => h = MaxSpeed
                    /\ (100 * measured >= MinSpeed * TargetMs
                        /\ 100 * measured <= MaxSpeed * TargetMs)
                         => h * TargetMs = 100 * measured
    ]_vars

\* the track of a run in which every segment fell back to silence: for each
\* segment, silence up to its start when the track is shorter, then silence
\* of its target_duration
RECURSIVE AllSilence(_, _, _)
AllSilence(segments, k, track) ==
  IF k > Len(segments) THEN track
  ELSE LET s == segments[k]
           padded == IF s.start > TrackLen(track)
                     THEN Append(track, Silent(s.start - TrackLen(track), k - 1))
                     ELSE track
       IN  AllSilence(segments, k + 1, Append(padded, Silent(s.end - s.start, k - 1)))

\* C20: a run in which no synthesis request gave valid audio returns, with a
\* success count of 0 and a track of silence alone: for each segment the
\* padding up to its start, if needed, and silence of its target_duration.
C20_AllSilence ==
  (run.pc \in {"returned", "raised"} /\ run.passed = 0 /\ run.total >= 1)
    => /\ run.pc = "returned"
       /\ run.success_count = 0
       /\ run.combined = AllSilence(run.segments, 1, << >>)

\* a step that issues a synthesis request
IsRequest ==
  /\ run'.pc \in {"neutral", "adjusted"}
  /\ run' # run

\* the segments whose iteration made the pieces of a track, piece by piece
SegOrder(combined) == [k \in 1..Len(combined) |-> combined[k].seg]

\* the last piece a segment put in the track: its audio
AudioOf(combined, j) ==
  LET ks == { k \in 1..Len(combined) : combined[k].seg = j }
  IN  combined[CHOOSE k \in ks : \A l \in ks : l <= k]

\* C21: segments are processed and applied in input order: a synthesis
\* request for a segment is issued only when the audio of every earlier
\* segment is in the track and nothing of a later one is; appending the audio
\* of segment i puts it at the end of the track; and in the returned track
\* the audio of the segments stands in the order of the input list.
C21_InInputOrder ==
  [][ /\ IsRequest
        => /\ run'.i = run.i /\ run'.combined = run.combined
           /\ { run.combined[k].seg : k \in 1..Len(run.combined) } = 0..(run.i - 1)
      /\ (run.pc = "append" /\ run'.pc = "loop")
        => /\ run'.combined[Len(run'.combined)] = run.audio_segment
           /\ run.audio_segment.seg = run.i
           /\ run'.i = run.i + 1
      /\ run'.pc = "returned"
        => /\ \A k, l \in 1..Len(run'.combined) :
                k < l => SegOrder(run'.combined)[k] <= SegOrder(run'.combined)[l]
           /\ { run'.combined[k].seg : k \in 1..Len(run'.combined) } = 0..(run'.total - 1)
    ]_vars

\* a run over two segments returned, both synthesized, the second one padded
C21_Witness ==
  /\ run.pc = "returned"
  /\ run.total = 2
  /\ run.success_count = 2
  /\ Len(run.combined) = 3
  /\ AudioOf(run.combined, 0).kind = "speech"
  /\ AudioOf(run.combined, 1).kind = "speech"

\* the cache file of the request a step issues
RequestFile ==
  get_cache_path(get_cache_key(Segment.content, VOICE, run'.prosody_rate, "azure"),
                 "wav", CACHE_DIR).name

\* the payloads of the files of a directory
Payloads(d) == [n \in DOMAIN d |-> d[n].data]

PhaseUndecodable ==
  /\ run.pc \in {"neutral", "adjusted"}
  /\ run'.pc \notin {run.pc, "idle"}
  /\ is_valid_wav_data(run.audio_data)
  /\ run.audio_data.ms < 0

\* C23: audio that passes the header check and cannot be decoded is treated
\* as a failed synthesis in the neutral and in the adjusted phase: the run
\* does not raise, and the segment gets the silence a failed synthesis gets,
\* one of its target_duration (whose length in ms is the matter of C17).
C23_UndecodableFallsBack ==
  [][ PhaseUndecodable
        => /\ run'.pc = "append"
           /\ run'.audio_segment.kind = "silence"
           /\ run'.audio_segment.ms \in {TargetMs, IntMs(TargetMs)}
    ]_vars

\* ------------------------------------- properties of the sequential assembler
\* a valid input file: present, of 500 bytes or more, decoding to audio
ValidFile(f) == f.exists /\ f.size >= MinFileSize /\ f.ms > 0

ValidFiles(audio_files) == { k \in 1..Len(audio_files) : ValidFile(audio_files[k]) }

\* the audio of the valid files from the k-th on, in the order of the list,
\* behind the pieces given, 300 ms of silence before each but the first
RECURSIVE Joined(_, _, _)
Joined(audio_files, k, pieces) ==
  IF k > Len(audio_files) THEN pieces
  ELSE LET f == audio_files[k]
       IN  IF ~ValidFile(f) THEN Joined(audio_files, k + 1, pieces)
           ELSE IF pieces = << >>
           THEN Joined(audio_files, k + 1, <<Spoken(f.ms, k - 1)>>)
           ELSE Joined(audio_files, k + 1,
                       pieces \o <<Silent(GapMs, k - 1), Spoken(f.ms, k - 1)>>)

RECURSIVE SumMs(_, _)
SumMs(audio_files, ks) ==
  IF ks = {} THEN 0
  ELSE LET k == CHOOSE x \in ks : TRUE
       IN  audio_files[k].ms + SumMs(audio_files, ks \ {k})

\* C24: for k >= 1 valid files the track returned is their audio in the
\* order of the list, 300 ms of silence between each two that follow one
\* another and none before the first or after the last; it is the sum of
\* their durations plus 300 * (k - 1) ms long; a file that is missing, too
\* small or does not decode puts nothing in the track.
C24_GapsBetweenValid ==
  (run.pc = "combined" /\ ValidFiles(run.audio_files) # {})
    => LET ks == ValidFiles(run.audio_files)
       IN  /\ run.combined = Track(Joined(run.audio_files, 1, << >>))
           /\ TrackLen(run.combined.pieces)
                = SumMs(run.audio_files, ks) + GapMs * (Cardinality(ks) - 1)
           /\ \A p \in 1..Len(run.combined.pieces) :
                (run.combined.pieces[p].seg + 1) \in ks

\* C25: the track returned is never empty, and it is exactly 1000 ms of
\* silence when no file of the list is valid, the empty list included.
C25_FallbackSecond ==
  run.pc = "combined"
    => /\ TrackLen(run.combined.pieces) > 0
       /\ ValidFiles(run.audio_files) = {}
            => /\ Len(run.combined.pieces) = 1
               /\ run.combined.pieces[1].kind = "silence"
               /\ run.combined.pieces[1].ms = FallbackMs

\* two files, one too small and one that does not decode: a second of silence
C25_Witness ==
  /\ run.pc = "combined"
  /\ Len(run.audio_files) = 2
  /\ run.audio_files[1] = [exists |-> TRUE, size |-> MinFileSize - 1, ms |-> 1000]
  /\ run.audio_files[2] = [exists |-> TRUE, size |-> MinFileSize + 1, ms |-> -1]
  /\ TrackLen(run.combined.pieces) = FallbackMs

\* the files whose audio is in a track
Included(combined) ==
  { combined.pieces[p].seg : p \in { q \in 1..Len(combined.pieces) :
                                       combined.pieces[q].kind = "speech" } }

\* C26: the valid count reported is the number of files whose audio is in
\* the track returned, and the total reported is the number of files given.
C26_CountsMatchTrack ==
  run.pc = "combined"
    => /\ run.reported.valid = Cardinality(Included(run.combined))
       /\ run.reported.total = Len(run.audio_files)

\* C27: a file that is present is skipped without being decoded exactly when
\* it is smaller than 500 bytes; one of 500 bytes or more is decoded, and is
\* left out of the track only if decoding fails (or gives no audio).
C27_SizeThreshold ==
  [][ (run.pc = "files" /\ run'.pc = "files" /\ run'.i = run.i + 1
       /\ run.audio_files[run.i + 1].exists)
        => LET f == run.audio_files[run.i + 1]
               decoded == run.i \in run'.decoded
               used == run'.combined # run.combined
           IN  /\ f.size < MinFileSize => (~decoded /\ ~used)
               /\ f.size >= MinFileSize => (decoded /\ (~used => f.ms <= 0))
    ]_vars

\* ------------------------------------------- properties of the header check
\* C28: is_valid_wav_data(blob) is true exactly when the blob is not None, is
\* 44 bytes long or longer and has "RIFF" at bytes 0-3 and "WAVE" at bytes
\* 8-11; a blob shorter than 44 bytes is invalid whatever it holds, and one
\* without a marker is invalid whatever its length.
C28_HeaderCheck ==
  (derived.fn = "is_valid_wav_data" /\ derived.ret # None)
    => LET blob == derived.args
           valid == derived.ret.b
       IN  /\ blob = None => ~valid
           /\ blob # None
                => /\ valid <=> (blob.len >= 44 /\ blob.riff /\ blob.wave)
                   /\ blob.len < 44 => ~valid
                   /\ (~blob.riff \/ ~blob.wave) => ~valid

\* a blob of exactly 44 bytes with both markers was found valid
C28_Witness ==
  /\ derived.fn = "is_valid_wav_data"
  /\ derived.ret = BoolVal(TRUE)
  /\ derived.args.len = 44

\* ------------------------------------------ properties of concurrent writers
\* C29: when two writers have saved different blobs under the same key and
\* both calls have returned, the file of the key holds the blob of the one
\* that wrote last, whole, and never a mixture of the two blobs.
C29_LastWriterWins ==
  (/\ run.pc = "writers"
   /\ \A p \in Writers : run.w[p].pc = "done"
   /\ WriterFile(1) = WriterFile(2)
   /\ run.w[1].audio_data # run.w[2].audio_data)
    => LET stored == fs[CACHE_DIR][WriterFile(1)].data
       IN  /\ stored \in { run.w[p].audio_data : p \in Writers }
           /\ stored = run.w[run.order[Len(run.order)]].audio_data

\* ------------------------------------- properties of the capability check
\* C30: check_azure_api_available reports the provider available only when
\* the key, the region and the SDK are all there; and a run of the
\* synchronizer without the capability does not find that out segment by
\* segment in the retry loop: it retries no request for want of the SDK.
C30_AbsenceSurfacedUpFront ==
  /\ \A speech_key \in {"", "k"}, service_region \in {"", "r"}, available \in BOOLEAN :
       check_azure_api_available(speech_key, service_region, available)[1]
         <=> (speech_key # "" /\ service_region # "" /\ available)
  /\ (run.pc # "idle" /\ ~run.AZURE_AVAILABLE) => run.attempts <= 1

\* ------------------------------------ further properties of the synchronizer
\* C31: when the neutral-rate synthesis of a segment gave audio that passes
\* the header check and measures no positive duration, the audio of the
\* segment is silence of target_duration, the segment goes to the track
\* without a request at an adjusted rate, and it is not counted as a success.
C31_NoDurationFallsBack ==
  [][ (/\ run.pc = "neutral" /\ run'.pc \notin {"neutral", "idle"}
       /\ is_valid_wav_data(run.audio_data)
       /\ get_audio_duration(run.audio_data) <= 0)
        => /\ run'.pc = "append"
           /\ run'.audio_segment = Silent(TargetMs, run.i)
           /\ run'.attempts = run.attempts
           /\ run'.success_count = run.success_count
    ]_vars

\* how far a run is from its end: the segments left, then the place in the
\* iteration and the retries left in its phase
Rank(r) ==
  IF r.pc \in {"returned", "raised"} THEN 0
  ELSE 20 * (r.total - r.i)
       + (CASE r.pc = "loop" -> 15
            [] r.pc = "neutral" -> 10 + r.retries
            [] r.pc = "adjust" -> 9
            [] r.pc = "adjusted" -> 4 + r.retries
            [] r.pc = "append" -> 1)

\* C32: if every call of the provider returns, the run ends (every step
\* brings it closer to its end), and it ends having issued for every
\* segment at least 1 request and at most 8: one phase at the neutral rate
\* and at most one at the adjusted rate, of at most 4 requests each.
C32_TerminatesWithinBudget ==
  [][ /\ Rank(run') < Rank(run)
      /\ run'.attempts <= 1 + Retries
      /\ IsRequest
           => \/ run.pc \in {"loop", "neutral"} /\ run'.pc = "neutral"
              \/ run.pc \in {"adjust", "adjusted"} /\ run'.pc = "adjusted"
      /\ (run'.pc = "adjust" /\ run.pc # "adjust") => run.pc = "neutral"
      /\ run'.i # run.i
           => /\ run.pc = "append" /\ run'.i = run.i + 1
              /\ run.attempts >= 1
      \* the run has ended: no segment is left without a request
      /\ run'.pc = "returned" => run'.i = run'.total
      /\ run'.pc = "raised" => run'.i = run'.total - 1
    ]_vars

\* a step that repeats the request of a phase
IsRetry ==
  /\ IsRequest
  /\ run'.pc = run.pc

\* C33: a retry, which follows a result that is absent or invalid, is
\* answered by the provider and never from the cache, where it would find
\* the invalid audio that caused it.
C33_RetryReachesProvider ==
  [][ IsRetry
        => /\ ~is_valid_wav_data(run.audio_data)
           /\ run'.source # "cache"
    ]_vars

\* C34: every payload in the raw cache, where only text_to_speech_azure
\* stores, passes is_valid_wav_data.
C34_CachedAudioValid ==
  \A n \in DOMAIN fs[CACHE_DIR] : is_valid_wav_data(fs[CACHE_DIR][n].data)

\* the segments before segment i whose audio in the track is speech
SpokenBefore(combined, i) ==
  { j \in 0..(i - 1) : AudioOf(combined, j).kind = "speech" }

\* C36: at every point of combine_audio_segments_azure success_count is at
\* least 0 and at most the number of segments processed so far (the one in
\* hand included once its audio is decided), and it is the number of
\* segments whose audio is speech synthesized at the adjusted rate and not
\* fallback silence: those in the track, and the one about to be appended;
\* so it is at the end, when every segment is in the track.
C36_SuccessCountIsSpeech ==
  LET pending == IF run.pc = "append" THEN 1 ELSE 0
      pendingSpeech == IF run.pc = "append" /\ run.audio_segment.kind = "speech"
                       THEN 1 ELSE 0
  IN  /\ 0 <= run.success_count
      /\ run.success_count <= run.i + pending
      /\ run.success_count
           = Cardinality(SpokenBefore(run.combined, run.i)) + pendingSpeech
      /\ run.pc = "returned"
           => run.success_count
                = Cardinality(SpokenBefore(run.combined, run.total))

\* a run returned with one segment spoken and one replaced by silence
C36_Witness ==
  /\ run.pc = "returned"
  /\ run.total = 2
  /\ run.success_count = 1
  /\ AudioOf(run.combined, 0).kind = "silence"
  /\ AudioOf(run.combined, 1).kind = "speech"

\* ---------------------------------------- properties of the command line
\* C37: whenever main() has returned after having started a synthesis, the
\* temporary '<output base>_temp.mp3' file does not exist, on the success
\* path and on every error path (synthesis error, too-small file, conversion
\* error).
C37_TempFileRemoved ==
  (run.at = "returned" /\ run.started)
    => temp_mp3(run.output_file) \notin DOMAIN run.files

\* ------------------------------------------- properties of concurrent reads
\* C35: whatever other callers save, evict or clear while a get is under
\* way, the get creates no entry (no step of it adds a file to the store,
\* and no file of the store is empty), and it returns absent or a whole
\* payload that was stored: get_cached_audio None or the bytes of a saved
\* blob, get_cached_output None or the path of a file holding one.
C35_ReadNeverCreates ==
  [][ (run.pc = "reader" /\ run' # run)
        => /\ \A dir \in Dirs : DOMAIN fs'[dir] \subseteq DOMAIN fs[dir]
           /\ \A dir \in Dirs : \A n \in DOMAIN fs'[dir] : BLen(fs'[dir][n].data) > 0
           /\ (run'.at = "done" /\ run'.ret # None)
                => IF run.fn = "get_cached_audio"
                   THEN run'.ret \in Blobs
                   ELSE /\ run'.ret = ReaderPath
                        /\ ReaderPath.name \in DOMAIN fs'[ReaderDir]
                        /\ fs'[ReaderDir][ReaderPath.name].data = OutBlob
    ]_vars

====
